---- MODULE Spec2Model ----
(***************************************************************************)
(* A model of go-relax: the trie/regexp router, the request Context and    *)
(* the ResponseBuffer, and the composition of the service filter chain.    *)
(*                                                                         *)
(* Strings are held as tuples of one-character strings, so that the        *)
(* regular expressions of the path segment expressions (PSE) are matched   *)
(* character by character.  A URL path is held as the tuple of the pieces  *)
(* that follow its leading "/" ("/posts/" is <<posts, <<>>>>).             *)
(***************************************************************************)
EXTENDS Integers, Sequences, FiniteSets, TLC

VARIABLES
    root,             \* trieRegexpRouter.root: node path -> trieNode
    pathRegexpCache,  \* package variable pathRegexpCache: segment -> regexp
    methods,          \* trieRegexpRouter.methods
    registered,       \* history: (method, trimmed template) -> last handler added
    added,            \* history: number of AddRoute calls made
    lookup,           \* the last FindHandler call: request and what it returned
    ctx,              \* the request Context: wroteHeader, status, bytes
    w,                \* the http.ResponseWriter the Context wraps
    rb,               \* a ResponseBuffer: wroteHeader, status, Buffer
    hist,             \* history: what the calls of the request asked for
    ops,              \* history: number of calls made on ctx and on rb
    filters,          \* Service.filters
    chain,            \* the handler chain built by Service.Adapter, outermost first
    serving,          \* the request being served: call stack and history of effects
    resource,         \* a Resource of the service: its filters
    routes,           \* the handlers Resource.Route gave to the router, per route
    resReq,           \* the request to a route of the resource being served
    pipeline,         \* the ETag and gzip filters of a service, in the order of Use
    exchange,         \* the request such a service is serving, and its response
    adapterReq,       \* the request in the closure of Service.Adapter: its Contexts
    memBucket,        \* a MemBucket, the clock, and the calls made on the bucket
    throttle,         \* a service with a Throttle filter: its limiter channels and producers
    cors,             \* the CORS filters made, the package's origin patterns, the last response
    security,         \* a security filter and the response to the last request through it
    override,         \* a method-override filter, a request, and the filter's invocations on it
    content,          \* a service's encoders and the last request through Service.Content
    requestId,        \* the calls of NewRequestID: the id given and the id returned
    pool,             \* the pools of Contexts and ResponseBuffers and the requests in flight
    shortReq          \* a request on its way down a chain of filters that may refuse it

routerVars == <<root, pathRegexpCache, methods, registered, added, lookup>>

contextVars == <<ctx, w, rb, hist, ops>>

chainVars == <<filters, chain, serving>>

resourceVars == <<resource, routes, resReq>>

\* the variables of the parts other than the router, the Context and the
\* service filter chain
pipeVars == <<pipeline, exchange>>

adapterVars == <<adapterReq>>

bucketVars == <<memBucket>>

throttleVars == <<throttle>>

corsVars == <<cors>>

securityVars == <<security>>

overrideVars == <<override>>

contentVars == <<content>>

requestIdVars == <<requestId>>

poolVars == <<pool>>

shortVars == <<shortReq>>

laterVars == <<bucketVars, throttleVars, corsVars, securityVars, overrideVars, contentVars, requestIdVars, poolVars, shortVars>>

moreVars == <<resourceVars, pipeVars, adapterVars, laterVars>>

earlierVars == <<routerVars, contextVars, chainVars, resourceVars, pipeVars, adapterVars>>

notBucketVars == <<earlierVars, throttleVars, corsVars, securityVars, overrideVars, contentVars, requestIdVars, poolVars, shortVars>>

notThrottleVars == <<earlierVars, bucketVars, corsVars, securityVars, overrideVars, contentVars, requestIdVars, poolVars, shortVars>>

notCorsVars == <<earlierVars, bucketVars, throttleVars, securityVars, overrideVars, contentVars, requestIdVars, poolVars, shortVars>>

notSecurityVars == <<earlierVars, bucketVars, throttleVars, corsVars, overrideVars, contentVars, requestIdVars, poolVars, shortVars>>

notOverrideVars == <<earlierVars, bucketVars, throttleVars, corsVars, securityVars, contentVars, requestIdVars, poolVars, shortVars>>

notContentVars == <<earlierVars, bucketVars, throttleVars, corsVars, securityVars, overrideVars, requestIdVars, poolVars, shortVars>>

notRequestIdVars == <<earlierVars, bucketVars, throttleVars, corsVars, securityVars, overrideVars, contentVars, poolVars, shortVars>>

notPoolVars == <<earlierVars, bucketVars, throttleVars, corsVars, securityVars, overrideVars, contentVars, requestIdVars, shortVars>>

notShortVars == <<earlierVars, bucketVars, throttleVars, corsVars, securityVars, overrideVars, contentVars, requestIdVars, poolVars>>

vars == <<routerVars, contextVars, chainVars, moreVars>>

-----------------------------------------------------------------------------
(* Bounds *)

MaxAdds == 5
MaxCtxOps == 3
MaxRbOps == 3
MaxFilters == 3
MaxLevelFilters == 1
MinLengthSet == 8

-----------------------------------------------------------------------------
(* Characters and strings *)

Digit == {"0", "1", "2", "3", "4", "5", "6", "7", "8", "9"}

Letter == {"a", "b", "c", "d", "e", "f", "g", "h", "i", "j", "k", "l", "m",
           "n", "o", "p", "q", "r", "s", "t", "u", "v", "w", "x", "y", "z",
           "A", "B", "C", "D", "E", "F", "G", "H", "I", "J", "K", "L", "M",
           "N", "O", "P", "Q", "R", "S", "T", "U", "V", "W", "X", "Y", "Z"}

\* the regexp class \w
WordChar == Letter \cup Digit \cup {"_"}

Contains(s, c) == \E i \in 1..Len(s) : s[i] = c

\* strings.Contains(s, sub)
ContainsStr(s, sub) ==
    \E i \in 0..(Len(s) - Len(sub)) : SubSeq(s, i + 1, i + Len(sub)) = sub

\* strings.Join(list, ",")
RECURSIVE Join(_)
Join(list) ==
    IF list = <<>> THEN <<>>
    ELSE IF Len(list) = 1 THEN list[1]
    ELSE list[1] \o <<",">> \o Join(Tail(list))

\* strconv of a non-negative integer, as fmt.Sprintf("%d") prints it
RECURSIVE Itoa(_)
Itoa(n) ==
    LET d == <<"0", "1", "2", "3", "4", "5", "6", "7", "8", "9">>
    IN  IF n < 10 THEN <<d[n + 1]>> ELSE Itoa(n \div 10) \o <<d[(n % 10) + 1]>>

\* strings.TrimRight(method+path, "/") followed by strings.Split(.., "/"):
\* the trailing empty pieces of the path go, the method is the first piece.
RECURSIVE TrimRightSlash(_)
TrimRightSlash(path) ==
    IF path # <<>> /\ path[Len(path)] = <<>>
    THEN TrimRightSlash(SubSeq(path, 1, Len(path) - 1))
    ELSE path

SplitRoute(method, path) == <<method>> \o TrimRightSlash(path)

-----------------------------------------------------------------------------
(* The strings of the model *)

sGET    == <<"G", "E", "T">>
sHEAD   == <<"H", "E", "A", "D">>
sPOST   == <<"P", "O", "S", "T">>
sDELETE == <<"D", "E", "L", "E", "T", "E">>

sPosts  == <<"p", "o", "s", "t", "s">>
sLinks  == <<"l", "i", "n", "k", "s">>
s123    == <<"1", "2", "3">>
s444    == <<"4", "4", "4">>
s666    == <<"6", "6", "6">>
sSomething == <<"s", "o", "m", "e", "t", "h", "i", "n", "g">>
sTagged == <<"t", "a", "g", "g", "e", "d">>
sAB     == <<"a", "-", "b">>

pUintId  == <<"{", "u", "i", "n", "t", ":", "i", "d", "}">>
pUintUid == <<"{", "u", "i", "n", "t", ":", "u", "i", "d", "}">>
pWordTag == <<"{", "w", "o", "r", "d", ":", "t", "a", "g", "}">>
pStar    == <<"*">>

\* HandlerFunc values; NilHandler is the nil func
Handlers == {"h1", "h2"}
NilHandler == "nil"

\* the routes of TestFindHandler, and a route of three "*" segments
TestRoutes ==
    { <<sGET, <<sPosts>>>>,
      <<sGET, <<sPosts, pUintId>>>>,
      <<sGET, <<sPosts, pUintId, sLinks>>>>,
      <<sGET, <<sPosts, pWordTag>>>>,
      <<sGET, <<sPosts, pWordTag, pUintUid>>>> }

Routes == TestRoutes \cup { <<sPOST, <<pStar, pStar, pStar, <<>>>>>> }

\* the requests of TestFindHandler, and others
TestRequestPaths ==
    { <<sPosts>>,
      <<sPosts, s123>>,
      <<sPosts, s444, sLinks>>,
      <<sPosts, sSomething>>,
      <<sPosts, sTagged, s666>> }

RequestPaths ==
    TestRequestPaths \cup { <<<<>>>>, <<sPosts, <<>>>>, <<sAB, s123, sPosts>> }

RequestMethods == {sGET, sHEAD, sPOST, sDELETE}

-----------------------------------------------------------------------------
(* The errors of the router *)

NoError == "nil"
ErrRouteNotFound == "ErrRouteNotFound"
ErrRouteBadMethod == "ErrRouteBadMethod"

-----------------------------------------------------------------------------
(* segmentExp and the compiled regexps.                                    *)
(* The model covers the segments that are one whole PSE: "{name}",         *)
(* "{word:name}", "{uint:name}" and "*".  A compiled regexp is held as the *)
(* type of its only group and the names of its subexpressions, as          *)
(* Regexp.SubexpNames returns them (index 0 is the whole match).           *)

tAny  == <<"a", "n", "y">>
tWord == <<"w", "o", "r", "d">>
tUint == <<"u", "i", "n", "t">>
sWild == <<"{", "w", "i", "l", "d", "}">>

\* strings.Replace(pattern, "*", "{wild}", -1)
RECURSIVE ReplaceStar(_)
ReplaceStar(pattern) ==
    IF pattern = <<>> THEN <<>>
    ELSE IF Head(pattern) = "*" THEN sWild \o ReplaceStar(Tail(pattern))
    ELSE <<Head(pattern)>> \o ReplaceStar(Tail(pattern))

\* the position of the first c in s, 0 when there is none
IndexOf(s, c) ==
    IF Contains(s, c) THEN CHOOSE i \in 1..Len(s) : s[i] = c /\ \A j \in 1..(i - 1) : s[j] # c
    ELSE 0

segmentExp(pattern) ==
    LET p     == ReplaceStar(pattern)
        inner == SubSeq(p, 2, Len(p) - 1)
        colon == IndexOf(inner, ":")
    IN  IF colon = 0
        THEN \* `\{\w+\}` becomes (?P<name>.+)
             [type |-> tAny, sub |-> <<<<>>, inner>>]
        ELSE \* `\{(?:word\:)\w+\}` becomes (?P<name>\w+),
             \* `\{(?:uint\:)\w+\}` becomes (?P<name>\d{1,10})
             [type |-> SubSeq(inner, 1, colon - 1),
              sub  |-> <<<<>>, SubSeq(inner, colon + 1, Len(inner))>>]

\* the leftmost longest run of at most max characters of class in s, as the
\* pair <<first, last>>; <<0, 0>> when s has no character of the class
LeftmostRun(s, class, max) ==
    IF \A i \in 1..Len(s) : s[i] \notin class THEN <<0, 0>>
    ELSE LET first == CHOOSE i \in 1..Len(s) :
                          s[i] \in class /\ \A j \in 1..(i - 1) : s[j] \notin class
             last  == CHOOSE k \in first..Len(s) :
                          /\ \A j \in first..k : s[j] \in class
                          /\ k - first + 1 <= max
                          /\ (k = Len(s) \/ s[k + 1] \notin class \/ k - first + 1 = max)
         IN  <<first, last>>

UintMaxDigits == 10

\* Regexp.FindStringSubmatch: <<>> is nil, else the whole match and the group
FindStringSubmatch(rx, s) ==
    LET run == IF rx.type = tUint THEN LeftmostRun(s, Digit, UintMaxDigits)
               ELSE IF rx.type = tWord THEN LeftmostRun(s, WordChar, Len(s) + 1)
               ELSE IF s = <<>> THEN <<0, 0>> ELSE <<1, Len(s)>>
        m   == SubSeq(s, run[1], run[2])
    IN  IF run[1] = 0 THEN <<>> ELSE <<m, m>>

-----------------------------------------------------------------------------
(* The trie.  A *trieNode is named by the segments that lead to it from    *)
(* the root; trieNode.links of a node are the nodes one segment longer.    *)

NewNode(depth) == [handler |-> NilHandler, numExp |-> 0, depth |-> depth]

\* the keys of node.links (empty: the map is nil, a map never loses a key)
Links(t, node) == {seg \in {p[Len(p)] : p \in (DOMAIN t) \ {<<>>}} : Append(node, seg) \in DOMAIN t}

NilNode == [nil |-> TRUE, path |-> <<>>]
NodeAt(path) == [nil |-> FALSE, path |-> path]

\* node.links[seg]
Link(t, node, seg) ==
    IF Append(node, seg) \in DOMAIN t THEN NodeAt(Append(node, seg)) ELSE NilNode

IsExpSegment(seg) ==
    (Contains(seg, "{") /\ Contains(seg, "}")) \/ Contains(seg, "*")

\* the loop of AddRoute over the segments, from segment i at node
RECURSIVE InsertSegments(_, _, _, _)
InsertSegments(t, node, pseg, i) ==
    IF i > Len(pseg) THEN t
    ELSE LET seg   == pseg[i]
             t1    == IF IsExpSegment(seg)
                      THEN [t EXCEPT ![node].numExp = @ + 1]
                      ELSE t
             child == Append(node, seg)
             t2    == IF child \in DOMAIN t1 THEN t1
                      ELSE t1 @@ (child :> NewNode(t1[node].depth + 1))
         IN  InsertSegments(t2, child, pseg, i + 1)

\* the handler is stored at the node of the last segment
SetHandler(t, pseg, handler) == [t EXCEPT ![pseg].handler = handler]

CompileSegments(cache, pseg) ==
    LET new == {pseg[i] : i \in {j \in 1..Len(pseg) : IsExpSegment(pseg[j])}}
    IN  [k \in (DOMAIN cache) \cup new |->
            IF k \in DOMAIN cache THEN cache[k] ELSE segmentExp(k)]

UpdateMethods(list, method) ==
    IF ~ContainsStr(Join(list), method) THEN Append(list, method) ELSE list

AddRoute(method, path, handler) ==
    LET pseg == SplitRoute(method, path)
    IN  /\ added < MaxAdds
        /\ lookup.done = FALSE
        /\ pathRegexpCache' = CompileSegments(pathRegexpCache, pseg)
        /\ root' = SetHandler(InsertSegments(root, <<>>, pseg, 1), pseg, handler)
        /\ methods' = UpdateMethods(methods, method)
        /\ registered' = [k \in (DOMAIN registered) \cup {pseg} |->
                             IF k = pseg THEN handler ELSE registered[k]]
        /\ added' = added + 1
        /\ UNCHANGED <<lookup, contextVars, chainVars, moreVars>>

-----------------------------------------------------------------------------
(* url.Values: nil, or a map from a key to the list of its values *)

NilValues == [nil |-> TRUE, kv |-> <<>>]

\* len(values)
ValuesLen(v) == Cardinality(DOMAIN v.kv)

\* Values.Set(key, val)
ValuesSet(v, key, val) ==
    [nil |-> FALSE,
     kv  |-> [k \in (DOMAIN v.kv) \cup {key} |-> IF k = key THEN <<val>> ELSE v.kv[k]]]

\* Values.Add(key, val)
ValuesAdd(v, key, val) ==
    [nil |-> FALSE,
     kv  |-> [k \in (DOMAIN v.kv) \cup {key} |->
                 IF k = key
                 THEN (IF key \in DOMAIN v.kv THEN Append(v.kv[key], val) ELSE <<val>>)
                 ELSE v.kv[k]]]

\* fmt.Sprintf("_%d", n)
PositionalKey(n) == <<"_">> \o Itoa(n)

\* the loop of matchSegment over the submatches m[i], i >= 1, with n fixed
\* before the loop; st.captures is history (the captures in the order made)
RECURSIVE RecordSubmatches(_, _, _, _, _)
RecordSubmatches(st, m, sub, n, i) ==
    IF i >= Len(m) THEN st
    ELSE LET v1 == ValuesSet(st.values, PositionalKey(n + i), m[i + 1])
             v2 == IF sub[i + 1] # <<>> THEN ValuesAdd(v1, sub[i + 1], m[i + 1]) ELSE v1
         IN  RecordSubmatches(
                 [values |-> v2,
                  captures |-> Append(st.captures, [name |-> sub[i + 1], value |-> m[i + 1]])],
                 m, sub, n, i + 1)

\* n of matchSegment: the start of the positional keys of this segment
SubmatchBase(values) == ValuesLen(values) \div 2

\* whether matchSegment passes over the link pexp of node for a request of
\* depth segments: "this prevents the matching to be side-tracked by smaller paths"
SkipLink(t, node, pexp, depth) ==
    depth > t[Append(node, pexp)].depth /\ Links(t, Append(node, pexp)) = {}

\* the links of node that matchSegment returns if it tries them first: the
\* range over the map visits the links in an order that is not specified,
\* and the first link that matches is returned
MatchingLinks(t, cache, node, pseg, depth) ==
    {pexp \in Links(t, node) :
        /\ pexp \in DOMAIN cache
        /\ ~SkipLink(t, node, pexp, depth)
        /\ LET m == FindStringSubmatch(cache[pexp], pseg)
           IN  Len(m) > 1 /\ m[1] = pseg}

\* trieNode.matchSegment: every <<node returned, values>> it can end with
matchSegment(t, cache, node, pseg, depth, st) ==
    IF t[node].numExp = 0
    THEN {[node |-> Link(t, node, pseg), st |-> st]}
    ELSE LET found == MatchingLinks(t, cache, node, pseg, depth)
         IN  IF found = {}
             THEN {[node |-> Link(t, node, pseg), st |-> st]}
             ELSE {[node |-> Link(t, node, pexp),
                    st   |-> RecordSubmatches(st, FindStringSubmatch(cache[pexp], pseg),
                                              cache[pexp].sub, SubmatchBase(st.values), 1)] :
                        pexp \in found}

\* the error of FindHandler when the node is nil before segment i (from 0)
NilNodeError(i) == IF i <= 1 THEN ErrRouteBadMethod ELSE ErrRouteNotFound

Result(handler, err, st) ==
    [handler |-> handler, err |-> err, values |-> st.values, captures |-> st.captures]

\* the loop of FindHandler from segment i (from 1 here, from 0 in the code)
RECURSIVE WalkSegments(_, _, _, _, _, _)
WalkSegments(t, cache, node, pseg, i, st) ==
    IF i > Len(pseg)
    THEN IF node.nil \/ t[node.path].handler = NilHandler
         THEN {Result(NilHandler, ErrRouteNotFound, st)}
         ELSE {Result(t[node.path].handler, NoError, st)}
    ELSE IF node.nil
         THEN {Result(NilHandler, NilNodeError(i - 1), st)}
         ELSE UNION {WalkSegments(t, cache, r.node, pseg, i + 1, r.st) :
                        r \in matchSegment(t, cache, node.path, pseg[i], Len(pseg), st)}

LookupMethod_AsGiven(method) == method

\* "if method == HEAD { method = GET }"
LookupMethod(method) == IF method = sHEAD THEN sGET ELSE method

\* every result FindHandler can return for the request, the path values of
\* the context being pathValues before the call
FindHandlerResults(t, cache, method, path, pathValues) ==
    WalkSegments(t, cache, NodeAt(<<>>), SplitRoute(LookupMethod(method), path), 1,
                 [values |-> pathValues, captures |-> <<>>])

NoLookup ==
    [done |-> FALSE, method |-> <<>>, path |-> <<>>,
     result |-> Result(NilHandler, NoError, [values |-> NilValues, captures |-> <<>>])]

\* FindHandler on a new context (PathValues nil)
FindHandler(method, path) ==
    /\ lookup.done = FALSE
    /\ \E r \in FindHandlerResults(root, pathRegexpCache, method, path, NilValues) :
           lookup' = [done |-> TRUE, method |-> method, path |-> path, result |-> r]
    /\ UNCHANGED <<root, pathRegexpCache, methods, registered, added, contextVars, chainVars, moreVars>>

\* the request ends: Context.free sets PathValues to nil for the next one
FreeLookup ==
    /\ lookup.done
    /\ lookup' = NoLookup
    /\ UNCHANGED <<root, pathRegexpCache, methods, registered, added, contextVars, chainVars, moreVars>>

RouterInit ==
    /\ root = (<<>> :> NewNode(0))
    /\ pathRegexpCache = <<>>
    /\ methods = <<>>
    /\ registered = <<>>
    /\ added = 0
    /\ lookup = NoLookup

RouterNext ==
    \/ \E r \in Routes, h \in Handlers : AddRoute(r[1], r[2], h)
    \/ \E m \in RequestMethods, p \in RequestPaths : FindHandler(m, p)
    \/ FreeLookup


-----------------------------------------------------------------------------
(* The claims about the router *)

\* whether the regexp of the template segment matches the whole request
\* segment, or the literal template segment equals it
SegmentMatches(tseg, rseg) ==
    IF IsExpSegment(tseg)
    THEN LET m == FindStringSubmatch(segmentExp(tseg), rseg)
         IN  Len(m) > 1 /\ m[1] = rseg
    ELSE tseg = rseg

\* whether the request matches the registered route key, segment by segment
\* (a HEAD request matches as a GET request)
RouteMatches(key, method, path) ==
    LET req == SplitRoute(IF method = sHEAD THEN sGET ELSE method, path)
    IN  Len(key) = Len(req) /\ \A i \in 1..Len(key) : SegmentMatches(key[i], req[i])

MatchingRoutes(method, path) ==
    {k \in DOMAIN registered : RouteMatches(k, method, path)}

RouteKey(r) == SplitRoute(r[1], r[2])

\* C1: a lookup whose method and path match a registered (method, path
\* template) returns the handler most recently registered for a template it
\* matches; a lookup that matches none returns a routing error.
C1_MostRecentHandler ==
    lookup.done =>
        IF MatchingRoutes(lookup.method, lookup.path) # {}
        THEN /\ lookup.result.err = NoError
             /\ lookup.result.handler \in
                    {registered[k] : k \in MatchingRoutes(lookup.method, lookup.path)}
        ELSE /\ lookup.result.handler = NilHandler
             /\ lookup.result.err \in {ErrRouteNotFound, ErrRouteBadMethod}

\* C2: with the five routes of TestFindHandler registered, each of its five
\* requests resolves to a handler without error, on every lookup.
C2_TestRequestsResolve ==
    ( /\ lookup.done
      /\ {RouteKey(r) : r \in TestRoutes} \subseteq DOMAIN registered
      /\ lookup.method = sGET
      /\ lookup.path \in TestRequestPaths )
    => (lookup.result.err = NoError /\ lookup.result.handler \in Handlers)

\* C3: with GET /posts/{word:tag} and GET /posts/{uint:id} registered,
\* GET /posts/123 resolves to the handler of the uint route.
C3_UintRouteWins ==
    ( /\ lookup.done
      /\ <<sGET, sPosts, pUintId>> \in DOMAIN registered
      /\ <<sGET, sPosts, pWordTag>> \in DOMAIN registered
      /\ lookup.method = sGET
      /\ lookup.path = <<sPosts, s123>> )
    => lookup.result.handler = registered[<<sGET, sPosts, pUintId>>]

\* C4: a failed lookup returns method-not-allowed exactly when the request
\* method has no node under the root, and not-found in every other case.
C4_BadMethodIffNoMethodNode ==
    (lookup.done /\ lookup.result.err # NoError) =>
        IF Link(root, <<>>, IF lookup.method = sHEAD THEN sGET ELSE lookup.method).nil
        THEN lookup.result.err = ErrRouteBadMethod
        ELSE lookup.result.err = ErrRouteNotFound

\* C5: a HEAD request resolves exactly what the same path resolves under
\* GET: the results a HEAD lookup can return are those a GET lookup can
\* return, and the result of a HEAD lookup made is one of them.
C5_HeadResolvesAsGet ==
    /\ ~lookup.done =>
           \A p \in RequestPaths :
               FindHandlerResults(root, pathRegexpCache, sHEAD, p, NilValues)
                   = WalkSegments(root, pathRegexpCache, NodeAt(<<>>), SplitRoute(sGET, p), 1,
                                  [values |-> NilValues, captures |-> <<>>])
    /\ (lookup.done /\ lookup.method = sHEAD) =>
           lookup.result \in WalkSegments(root, pathRegexpCache, NodeAt(<<>>),
                                          SplitRoute(sGET, lookup.path), 1,
                                          [values |-> NilValues, captures |-> <<>>])

\* a HEAD lookup found the handler of a GET route with a captured value
C5_Witness ==
    /\ lookup.done
    /\ lookup.method = sHEAD
    /\ lookup.result.handler \in Handlers
    /\ lookup.result.captures # <<>>

IsPositionalKey(k) ==
    Len(k) >= 2 /\ k[1] = "_" /\ \A j \in 2..Len(k) : k[j] \in Digit

\* C6: after a successful lookup the i-th value captured is stored under
\* _i and under its subgroup name, and the positional keys are exactly
\* _1 .. _n for the n values captured.
C6_PositionalKeysConsecutive ==
    (lookup.done /\ lookup.result.err = NoError) =>
        LET caps == lookup.result.captures
            kv   == lookup.result.values.kv
        IN  /\ {k \in DOMAIN kv : IsPositionalKey(k)} = {PositionalKey(i) : i \in 1..Len(caps)}
            /\ \A i \in 1..Len(caps) :
                   /\ PositionalKey(i) \in DOMAIN kv
                   /\ kv[PositionalKey(i)] = <<caps[i].value>>
                   /\ caps[i].name # <<>> =>
                          /\ caps[i].name \in DOMAIN kv
                          /\ \E j \in 1..Len(kv[caps[i].name]) :
                                 kv[caps[i].name][j] = caps[i].value

-----------------------------------------------------------------------------
(* The response writer of net/http that a Context wraps, as the calls it   *)
(* receives: the codes passed to WriteHeader, the status in effect (0:     *)
(* none yet; a Write without a status sends StatusOK) and the body.        *)

StatusOK == 200
StatusCreated == 201
StatusNotFound == 404

NewWriter == [codes |-> <<>>, status |-> 0, body |-> <<>>]

httpWriteHeader(wr, code) ==
    [wr EXCEPT !.codes = Append(@, code), !.status = IF @ = 0 THEN code ELSE @]

httpWrite(wr, b) ==
    [wr EXCEPT !.status = IF @ = 0 THEN StatusOK ELSE @, !.body = @ \o b]

-----------------------------------------------------------------------------
(* Values and their JSON encoding (EncoderJSON.Encode, not indented:       *)
(* json.Encoder.Encode writes the value and a newline)                     *)

StringValue(s) == [kind |-> "string", s |-> s]
StatusError(code, message) == [kind |-> "StatusError", code |-> code, message |-> message]

EncodeJSON(v) ==
    IF v.kind = "string"
    THEN <<"\"">> \o v.s \o <<"\"", "\n">>
    ELSE <<"{", "\"", "c", "o", "d", "e", "\"", ":">> \o Itoa(v.code)
         \o <<",", "\"", "m", "e", "s", "s", "a", "g", "e", "\"", ":", "\"">>
         \o v.message \o <<"\"", "}", "\n">>

-----------------------------------------------------------------------------
(* Context *)

NewContext == [wroteHeader |-> FALSE, status |-> 0, bytes |-> 0]

\* Context.WriteHeader without its wroteHeader test
ContextWriteHeader_Unguarded(c, wr, code) ==
    [ctx |-> [c EXCEPT !.wroteHeader = TRUE, !.status = code],
     w   |-> httpWriteHeader(wr, code)]

\* Context.WriteHeader
ContextWriteHeader(c, wr, code) ==
    IF c.wroteHeader
    THEN [ctx |-> c, w |-> wr]
    ELSE [ctx |-> [c EXCEPT !.wroteHeader = TRUE, !.status = code],
          w   |-> httpWriteHeader(wr, code)]

\* Context.Write
ContextWrite(c, wr, b) ==
    [ctx |-> [c EXCEPT !.bytes = @ + Len(b)], w |-> httpWrite(wr, b)]

\* Context.Status
ContextStatus(c) == IF ~c.wroteHeader THEN StatusOK ELSE c.status

\* Context.Bytes
ContextBytes(c) == c.bytes

\* no status code given to Respond (code == nil)
NoCode == 0

\* Context.Respond that encodes only when no header was written yet
ContextRespond_Once(c, wr, v, code) ==
    LET s1 == IF code # NoCode THEN ContextWriteHeader(c, wr, code)
              ELSE [ctx |-> c, w |-> wr]
    IN  IF c.wroteHeader THEN s1
        ELSE [ctx |-> s1.ctx, w |-> httpWrite(s1.w, EncodeJSON(v))]

\* Context.Respond: ctx.Encode writes to ctx.ResponseWriter
ContextRespond(c, wr, v, code) ==
    LET s1 == IF code # NoCode THEN ContextWriteHeader(c, wr, code)
              ELSE [ctx |-> c, w |-> wr]
    IN  [ctx |-> s1.ctx, w |-> httpWrite(s1.w, EncodeJSON(v))]

\* Context.Error
ContextError(c, wr, code, message) ==
    ContextRespond(c, wr, StatusError(code, message), code)

(* ResponseBuffer *)

NewBuffer == [wroteHeader |-> FALSE, status |-> 0, buf |-> <<>>]

\* ResponseBuffer.WriteHeader
BufferWriteHeader(b, code) ==
    IF b.wroteHeader THEN b ELSE [b EXCEPT !.wroteHeader = TRUE, !.status = code]

\* ResponseBuffer.Write
BufferWrite(b, data) == [b EXCEPT !.buf = @ \o data]

\* ResponseBuffer.Status
BufferStatus(b) == IF b.wroteHeader THEN b.status ELSE StatusOK

(* The calls a handler or a filter makes during one request *)

Codes == {StatusCreated, StatusNotFound}
Payloads == {<<"h", "i">>}
Messages == {<<"n", "o">>}

RespondValues == {StringValue(<<"o", "k">>)}

\* hist.ctxCodes, hist.rbCodes: the codes passed to WriteHeader of ctx, of rb;
\* hist.asked: the body bytes the calls on ctx were to write, in order;
\* hist.responds: the bytes each Respond or Error call added to the body
NewHist == [ctxCodes |-> <<>>, rbCodes |-> <<>>, asked |-> <<>>, responds |-> <<>>]

CtxCall(s) ==
    /\ ops.ctx < MaxCtxOps
    /\ ctx' = s.ctx
    /\ w' = s.w
    /\ ops' = [ops EXCEPT !.ctx = @ + 1]
    /\ UNCHANGED <<rb, routerVars, chainVars, moreVars>>

CtxWriteHeader(code) ==
    /\ CtxCall(ContextWriteHeader(ctx, w, code))
    /\ hist' = [hist EXCEPT !.ctxCodes = Append(@, code)]

CtxWrite(b) ==
    /\ CtxCall(ContextWrite(ctx, w, b))
    /\ hist' = [hist EXCEPT !.asked = @ \o b]

CtxRespond(v, code) ==
    /\ CtxCall(ContextRespond(ctx, w, v, code))
    /\ hist' = [hist EXCEPT
                   !.ctxCodes = IF code # NoCode THEN Append(@, code) ELSE @,
                   !.asked = @ \o EncodeJSON(v),
                   !.responds = Append(@, Len(w'.body) - Len(w.body))]

CtxError(code, message) ==
    /\ CtxCall(ContextError(ctx, w, code, message))
    /\ hist' = [hist EXCEPT
                   !.ctxCodes = Append(@, code),
                   !.asked = @ \o EncodeJSON(StatusError(code, message)),
                   !.responds = Append(@, Len(w'.body) - Len(w.body))]

\* Context.free at the end of the request; the next request brings its writer
CtxFree ==
    /\ ops.ctx > 0
    /\ ctx' = NewContext
    /\ w' = NewWriter
    /\ hist' = [NewHist EXCEPT !.rbCodes = hist.rbCodes]
    /\ ops' = [ops EXCEPT !.ctx = 0]
    /\ UNCHANGED <<rb, routerVars, chainVars, moreVars>>

RbCall(b) ==
    /\ ops.rb < MaxRbOps
    /\ rb' = b
    /\ ops' = [ops EXCEPT !.rb = @ + 1]
    /\ UNCHANGED <<ctx, w, routerVars, chainVars, moreVars>>

RbWriteHeader(code) ==
    /\ RbCall(BufferWriteHeader(rb, code))
    /\ hist' = [hist EXCEPT !.rbCodes = Append(@, code)]

RbWrite(data) ==
    /\ RbCall(BufferWrite(rb, data))
    /\ UNCHANGED hist

\* ResponseBuffer.Free
RbFree ==
    /\ ops.rb > 0
    /\ rb' = NewBuffer
    /\ hist' = [hist EXCEPT !.rbCodes = <<>>]
    /\ ops' = [ops EXCEPT !.rb = 0]
    /\ UNCHANGED <<ctx, w, routerVars, chainVars, moreVars>>

ContextInit ==
    /\ ctx = NewContext
    /\ w = NewWriter
    /\ rb = NewBuffer
    /\ hist = NewHist
    /\ ops = [ctx |-> 0, rb |-> 0]

ContextNext ==
    \/ \E code \in Codes : CtxWriteHeader(code)
    \/ \E b \in Payloads : CtxWrite(b)
    \/ \E v \in RespondValues, code \in Codes \cup {NoCode} : CtxRespond(v, code)
    \/ \E code \in Codes, m \in Messages : CtxError(code, m)
    \/ CtxFree
    \/ \E code \in Codes : RbWriteHeader(code)
    \/ \E b \in Payloads : RbWrite(b)
    \/ RbFree

-----------------------------------------------------------------------------
(* The service filter chain.  A chain is held as the list of its stages, *)
(* outermost first: Run(next) of a filter puts the filter before next.     *)
(* A stage carries the index its filter has in Service.filters (0: none).  *)

FilterNames == {"fA", "fB"}

Stage(name, reg) == [name |-> name, reg |-> reg]

\* the handler svc.dispatch
DispatchHandler == <<Stage("dispatch", 0)>>

\* Filter.Run(next) for the filter at index reg of Service.filters
FilterRun(name, reg, next) == <<Stage(name, reg)>> \o next

\* svc.content(next)
ContentRun(next) == <<Stage("content", 0)>> \o next

\* the loop of Adapter run from the first filter to the last
RECURSIVE WrapFilters_Forward(_, _, _)
WrapFilters_Forward(fs, i, h) ==
    IF i > Len(fs) THEN h ELSE WrapFilters_Forward(fs, i + 1, FilterRun(fs[i], i, h))

\* the loop of Adapter: "for i := len(svc.filters) - 1; i >= 0; i--"
\* (the indices are from 1 here)
RECURSIVE WrapFilters(_, _, _)
WrapFilters(fs, i, h) ==
    IF i < 1 THEN h ELSE WrapFilters(fs, i - 1, FilterRun(fs[i], i, h))

ComposeForward(fs) == ContentRun(WrapFilters_Forward(fs, 1, DispatchHandler))

\* the handler of Service.Adapter
Compose(fs) == ContentRun(WrapFilters(fs, Len(fs), DispatchHandler))

NoHandlerChain == <<>>

Idle == [state |-> "idle", stack |-> <<>>, trace |-> <<>>]

Event(kind, stage) == [kind |-> kind, name |-> stage.name, reg |-> stage.reg]

\* Service.Use, for an entity that implements Filter
UseFilter(name) ==
    /\ chain = NoHandlerChain
    /\ Len(filters) < MaxFilters
    /\ filters' = Append(filters, name)
    /\ UNCHANGED <<chain, serving, routerVars, contextVars, moreVars>>

\* Service.Use, for an entity of no known interface: it is logged and ignored
UseUnknown ==
    /\ chain = NoHandlerChain
    /\ serving.state = "idle"
    /\ serving' = [serving EXCEPT !.state = "setup"]
    /\ UNCHANGED <<filters, chain, routerVars, contextVars, moreVars>>

\* Service.Adapter: builds the chain
Adapter ==
    /\ chain = NoHandlerChain
    /\ chain' = Compose(filters)
    /\ serving' = Idle
    /\ UNCHANGED <<filters, routerVars, contextVars, moreVars>>

\* the function Adapter returns is called with a request: handler(ctx)
Serve ==
    /\ chain # NoHandlerChain
    /\ serving.state \in {"idle", "done"}
    /\ serving' = [state |-> "call", stack |-> <<>>, trace |-> <<>>]
    /\ UNCHANGED <<filters, chain, routerVars, contextVars, moreVars>>

\* the stage about to be called: the one after the stages on the stack
NextStage == chain[Len(serving.stack) + 1]

\* a filter (or the content stage) is called, does what it does before
\* next, and calls next
StageCallsNext ==
    /\ serving.state = "call"
    /\ NextStage.name # "dispatch"
    /\ serving' = [state |-> "call",
               stack |-> Append(serving.stack, NextStage),
               trace |-> Append(serving.trace, Event("pre", NextStage))]
    /\ UNCHANGED <<filters, chain, routerVars, contextVars, moreVars>>

\* a filter (or the content stage) is called and responds itself: it
\* returns without calling next
StageStops ==
    /\ serving.state = "call"
    /\ NextStage.name # "dispatch"
    /\ serving' = [state |-> "return",
               stack |-> serving.stack,
               trace |-> Append(serving.trace, Event("stop", NextStage))]
    /\ UNCHANGED <<filters, chain, routerVars, contextVars, moreVars>>

\* svc.dispatch is called and returns
Dispatch ==
    /\ serving.state = "call"
    /\ NextStage.name = "dispatch"
    /\ serving' = [state |-> "return",
               stack |-> serving.stack,
               trace |-> Append(serving.trace, Event("dispatch", NextStage))]
    /\ UNCHANGED <<filters, chain, routerVars, contextVars, moreVars>>

\* next has returned to the innermost stage called: it does what it does
\* after next, and returns
StageReturns ==
    /\ serving.state = "return"
    /\ serving.stack # <<>>
    /\ serving' = [state |-> "return",
               stack |-> SubSeq(serving.stack, 1, Len(serving.stack) - 1),
               trace |-> Append(serving.trace, Event("post", serving.stack[Len(serving.stack)]))]
    /\ UNCHANGED <<filters, chain, routerVars, contextVars, moreVars>>

\* the outermost stage has returned: the request is served
Served ==
    /\ serving.state = "return"
    /\ serving.stack = <<>>
    /\ serving' = [serving EXCEPT !.state = "done"]
    /\ UNCHANGED <<filters, chain, routerVars, contextVars, moreVars>>

ChainInit ==
    /\ filters = <<>>
    /\ chain = NoHandlerChain
    /\ serving = Idle

ChainNext ==
    \/ \E f \in FilterNames : UseFilter(f)
    \/ UseUnknown
    \/ Adapter
    \/ Serve
    \/ StageCallsNext
    \/ StageStops
    \/ Dispatch
    \/ StageReturns
    \/ Served

-----------------------------------------------------------------------------
(* Resources: the filters of a resource and the filters of a route.  A     *)
(* handler is the list of its stages, outermost first; a stage carries the *)
(* level its filter was attached at.                                       *)

\* the values handed to LimitedFilter.RunIn: a Router, a *Resource, a
\* *Service, and the method value r.service.Router (of type func() Router)
ScopeRouter == "Router"
ScopeResource == "*Resource"
ScopeService == "*Service"
ScopeRouterFunc == "func() Router"

\* trackingFilter has no RunIn; multipart.Filter allows a Router only;
\* MyFilter (the example of LimitedFilter) allows a Router and a *Resource
ResourceFilters == {"tracking", "multipart", "MyFilter"}

\* filters[i].(LimitedFilter)
IsLimitedFilter(f) == f \in {"multipart", "MyFilter"}

\* LimitedFilter.RunIn: a type switch on e
RunIn(f, e) ==
    CASE f = "multipart" -> e = ScopeRouter
      [] f = "MyFilter" -> e \in {ScopeRouter, ScopeResource}
      [] OTHER -> FALSE

FilterLists == UNION {[1..n -> ResourceFilters] : n \in 0..MaxLevelFilters}

LevelStage(name, level) == [name |-> name, level |-> level]

\* the handler h given to Route (a resource handler)
ResourceHandler == <<LevelStage("handler", "handler")>>

\* Resource.relationHandler
relationHandler(next) == <<LevelStage("relationHandler", "relation")>> \o next

\* Resource.attachFilters, its loop from index i down; level names the call
RECURSIVE attachFiltersFrom(_, _, _, _)
attachFiltersFrom(h, fs, i, level) ==
    IF i < 1 THEN h
    ELSE IF IsLimitedFilter(fs[i]) /\ ~RunIn(fs[i], ScopeRouterFunc)
         THEN attachFiltersFrom(h, fs, i - 1, level)
         ELSE attachFiltersFrom(<<LevelStage(fs[i], level)>> \o h, fs, i - 1, level)

attachFilters(h, fs, level) ==
    IF Len(fs) = 0 THEN h ELSE attachFiltersFrom(h, fs, Len(fs), level)

\* the handler of Route with the filters of the resource attached first
RouteHandler_RouteOutside(rfilters, fs, h) ==
    attachFilters(attachFilters(relationHandler(h), rfilters, "resource"), fs, "route")

\* the handler Resource.Route gives to the router
RouteHandler(rfilters, fs, h) ==
    attachFilters(attachFilters(relationHandler(h), fs, "route"), rfilters, "resource")

\* Service.Resource: the filters it keeps in res.filters
RECURSIVE UsableFilters(_, _)
UsableFilters(fs, i) ==
    IF i > Len(fs) THEN <<>>
    ELSE IF IsLimitedFilter(fs[i]) /\ ~RunIn(fs[i], ScopeResource)
         THEN UsableFilters(fs, i + 1)
         ELSE <<fs[i]>> \o UsableFilters(fs, i + 1)

kOptions == "OPTIONS /"
kIndex == "GET /"
kItems == "GET /items"
RouteKeys == {kOptions, kIndex, kItems}

NoRoute == [handler |-> <<>>, given |-> <<>>]
NoResource == [exists |-> FALSE, filters |-> <<>>, given |-> <<>>]
NoRequest == [state |-> "idle", route |-> "", stages |-> <<>>, pos |-> 0, trace |-> <<>>]

\* Service.Use with a filter, before the resource is made
ServiceUse(f) ==
    /\ ~resource.exists
    /\ Len(filters) < MaxLevelFilters
    /\ filters' = Append(filters, f)
    /\ UNCHANGED <<chain, serving, resourceVars, routerVars, contextVars, pipeVars, adapterVars, laterVars>>

\* Service.Resource(collection, fs...): keeps the usable filters and adds
\* the routes OPTIONS and GET of the collection
ServiceResource(fs) ==
    /\ ~resource.exists
    /\ LET kept == UsableFilters(fs, 1)
           h == [handler |-> RouteHandler(kept, <<>>, ResourceHandler), given |-> <<>>]
       IN  /\ resource' = [exists |-> TRUE, filters |-> kept, given |-> fs]
           /\ routes' = [routes EXCEPT ![kOptions] = h, ![kIndex] = h]
    /\ UNCHANGED <<resReq, chainVars, routerVars, contextVars, pipeVars, adapterVars, laterVars>>

\* Resource.Route("GET", "items", h, fs...)
ResourceRoute(fs) ==
    /\ resource.exists
    /\ routes[kItems] = NoRoute
    /\ routes' = [routes EXCEPT ![kItems] =
                     [handler |-> RouteHandler(resource.filters, fs, ResourceHandler),
                      given |-> fs]]
    /\ UNCHANGED <<resource, resReq, chainVars, routerVars, contextVars, pipeVars, adapterVars, laterVars>>

\* the stages of the handler of Service.Adapter, down to svc.dispatch
ServiceStages ==
    LET c == Compose(filters)
    IN  [i \in 1..Len(c) |->
            LevelStage(c[i].name,
                       IF c[i].name \in {"content", "dispatch"} THEN c[i].name
                       ELSE "service")]

\* Service.ServeHTTP for a request to a route of the resource: dispatch
\* calls the handler the router holds for the route
ResourceServe(k) ==
    /\ routes[k] # NoRoute
    /\ resReq.state \in {"idle", "done"}
    /\ resReq' = [state |-> "call", route |-> k,
                  stages |-> ServiceStages \o routes[k].handler,
                  pos |-> 0, trace |-> <<>>]
    /\ UNCHANGED <<resource, routes, chainVars, routerVars, contextVars, pipeVars, adapterVars, laterVars>>

\* the next stage is called: it does what it does before next
ResourceStageCalled ==
    /\ resReq.state = "call"
    /\ LET n == resReq.pos + 1
       IN  resReq' = [resReq EXCEPT
                         !.pos = n,
                         !.trace = Append(@, <<"pre", resReq.stages[n]>>),
                         !.state = IF n = Len(resReq.stages) THEN "return" ELSE "call"]
    /\ UNCHANGED <<resource, routes, chainVars, routerVars, contextVars, pipeVars, adapterVars, laterVars>>

\* the innermost stage called returns
ResourceStageReturns ==
    /\ resReq.state = "return"
    /\ LET n == resReq.pos
       IN  resReq' = [resReq EXCEPT
                         !.pos = n - 1,
                         !.trace = Append(@, <<"post", resReq.stages[n]>>),
                         !.state = IF n = 1 THEN "done" ELSE "return"]
    /\ UNCHANGED <<resource, routes, chainVars, routerVars, contextVars, pipeVars, adapterVars, laterVars>>

ResourceInit ==
    /\ resource = NoResource
    /\ routes = [k \in RouteKeys |-> NoRoute]
    /\ resReq = NoRequest

ResourceNext ==
    \/ \E f \in ResourceFilters : ServiceUse(f)
    \/ \E fs \in FilterLists : ServiceResource(fs)
    \/ \E fs \in FilterLists : ResourceRoute(fs)
    \/ \E k \in RouteKeys : ResourceServe(k)
    \/ ResourceStageCalled
    \/ ResourceStageReturns

-----------------------------------------------------------------------------
(* The response pipeline of the buffering filters (ETag, gzip).  A header  *)
(* value, an entity tag and a body are lists of tokens; the empty string   *)
(* is the empty list.                                                      *)

hETag == "ETag"
hVary == "Vary"
hContentEncoding == "Content-Encoding"
HeaderNames == {hETag, hVary, hContentEncoding}

\* an http.Header with no keys (also the nil header of a freed buffer)
NoHeader == [n \in HeaderNames |-> <<>>]

\* http.Header.Get, Set, Add
HeaderGet(h, n) == IF h[n] = <<>> THEN <<>> ELSE h[n][1]
HeaderSet(h, n, v) == [h EXCEPT ![n] = <<v>>]
HeaderAdd(h, n, v) == [h EXCEPT ![n] = Append(@, v)]

\* "for k, v := range src { dst[k] = v }"
HeaderCopy(dst, src) == [n \in HeaderNames |-> IF src[n] # <<>> THEN src[n] ELSE dst[n]]

StatusNotModified == 304
StatusNoContent == 204
StatusPreconditionFailed == 412

\* net/http: a response with one of these statuses has no body; Write
\* returns http.ErrBodyNotAllowed and sends nothing
BodyAllowed(status) == ~(status < 200 \/ status = StatusNoContent \/ status = StatusNotModified)

\* A writer is the client's http.ResponseWriter or a ResponseBuffer.
\* sent: the headers the client got, fixed by the first WriteHeader.
ClientWriter ==
    [client |-> TRUE, header |-> NoHeader, wroteHeader |-> FALSE, status |-> 0,
     body |-> <<>>, sent |-> NoHeader]

\* NewResponseBuffer(w): a buffer with a copy of the headers of w
NewResponseBuffer(wr) ==
    [client |-> FALSE, header |-> HeaderCopy(NoHeader, wr.header), wroteHeader |-> FALSE,
     status |-> 0, body |-> <<>>, sent |-> NoHeader]

\* ResponseBuffer.Free: the fields after Buffer.Reset and the resets
FreedBuffer ==
    [client |-> FALSE, header |-> NoHeader, wroteHeader |-> FALSE,
     status |-> 0, body |-> <<>>, sent |-> NoHeader]

\* WriteHeader of the writer: ResponseBuffer.WriteHeader, or net/http's,
\* which sends the status and the headers as they are now, once
WriterWriteHeader(wr, code) ==
    IF wr.wroteHeader THEN wr
    ELSE [wr EXCEPT !.wroteHeader = TRUE, !.status = code,
                    !.sent = IF wr.client THEN wr.header ELSE @]

\* Write of the writer: ResponseBuffer.Write appends to the buffer;
\* net/http's sends StatusOK first if no status was sent
WriterWrite(wr, b) ==
    IF ~wr.client THEN [wr EXCEPT !.body = @ \o b]
    ELSE LET w1 == WriterWriteHeader(wr, StatusOK)
         IN  IF BodyAllowed(w1.status) THEN [w1 EXCEPT !.body = @ \o b] ELSE w1

\* ResponseBuffer.Status
WriterStatus(wr) == IF wr.wroteHeader THEN wr.status ELSE StatusOK

\* ResponseBuffer.Reset (bytes.Buffer.Reset): the body only
BufferReset(b) == [b EXCEPT !.body = <<>>]

\* A Context and the writer it wraps: cx holds wroteHeader and status.
\* Context.Clone(rb): the clone comes from the pool with its flags reset.
NewPair(wr) == [cx |-> [wroteHeader |-> FALSE, status |-> 0], wr |-> wr]

\* Context.WriteHeader
PairWriteHeader(p, code) ==
    IF p.cx.wroteHeader THEN p
    ELSE [cx |-> [wroteHeader |-> TRUE, status |-> code],
          wr |-> WriterWriteHeader(p.wr, code)]

\* Context.Write
PairWrite(p, b) == [p EXCEPT !.wr = WriterWrite(p.wr, b)]

\* ctx.Header().Set, ctx.Header().Add
PairHeaderSet(p, n, v) == [p EXCEPT !.wr.header = HeaderSet(@, n, v)]
PairHeaderAdd(p, n, v) == [p EXCEPT !.wr.header = HeaderAdd(@, n, v)]

\* ResponseBuffer.FlushHeader(w) with w a Context
FlushHeader(b, p) ==
    LET p1 == [p EXCEPT !.wr.header = HeaderCopy(@, b.header)]
    IN  IF b.wroteHeader THEN PairWriteHeader(p1, b.status) ELSE p1

\* ResponseBuffer.FlushHeader(w) with w the writer under a Context
FlushHeaderRaw(b, wr) ==
    LET w1 == [wr EXCEPT !.header = HeaderCopy(@, b.header)]
    IN  IF b.wroteHeader THEN WriterWriteHeader(w1, b.status) ELSE w1

\* ResponseBuffer.Flush(ctx): FlushHeader, then WriteTo (bytes.Buffer.WriteTo
\* calls Write only for a buffer that is not empty)
Flush(b, p) ==
    LET p1 == FlushHeader(b, p)
    IN  IF b.body # <<>> THEN PairWrite(p1, b.body) ELSE p1

-----------------------------------------------------------------------------
(* Tokens, bodies, entity tags *)

tQuote == "\""
tStar == "*"
tWeak == "W/"
tComma == ","
tSpace == " "
tDash == "-"
tGzip == "gzip"

\* the bodies a handler responds with, as EncoderJSON writes them
ShortBody == EncodeJSON(StringValue(<<"o", "k">>))
LongBody == EncodeJSON(StringValue(<<"h", "e", "l", "l", "o", " ", "w", "o", "r", "l", "d", "!">>))
NotFoundBody == EncodeJSON(StatusError(StatusNotFound, <<"n", "f">>))

\* what a gzip.Writer has written after Close: header, deflated data, trailer
GzipMagic == "1f8b"
Gzip(b) == <<GzipMagic>> \o b \o <<"crc32", "isize">>
IsGzip(b) == b # <<>> /\ b[1] = GzipMagic

\* hex.EncodeToString of the SHA-1 of the body: one digest for each body
Sha1Hex(b) ==
    CASE b = ShortBody -> <<"5f2a">>
      [] b = LongBody -> <<"2aae">>
      [] b = Gzip(ShortBody) -> <<"9c01">>
      [] b = Gzip(LongBody) -> <<"d4e7">>
      [] b = <<>> -> <<"da39">>

Quoted(s) == <<tQuote>> \o s \o <<tQuote>>

\* strings.HasPrefix(s, "W/")
HasWeakPrefix(s) == s # <<>> /\ s[1] = tWeak

\* strings.Trim(s, `"`)
RECURSIVE TrimQuotes(_)
TrimQuotes(s) ==
    IF s = <<>> THEN s
    ELSE IF s[1] = tQuote THEN TrimQuotes(Tail(s))
    ELSE IF s[Len(s)] = tQuote THEN TrimQuotes(SubSeq(s, 1, Len(s) - 1))
    ELSE s

\* strings.TrimSpace
RECURSIVE TrimSpace(_)
TrimSpace(s) ==
    IF s = <<>> THEN s
    ELSE IF s[1] = tSpace THEN TrimSpace(Tail(s))
    ELSE IF s[Len(s)] = tSpace THEN TrimSpace(SubSeq(s, 1, Len(s) - 1))
    ELSE s

\* strings.Split(s, ",")
RECURSIVE SplitComma(_, _)
SplitComma(s, cur) ==
    IF s = <<>> THEN <<cur>>
    ELSE IF s[1] = tComma THEN <<cur>> \o SplitComma(Tail(s), <<>>)
    ELSE SplitComma(Tail(s), Append(cur, s[1]))

\* strings.TrimSuffix(etag, `"`) + `-gzip"`
EtagGzip(etag) ==
    (IF etag # <<>> /\ etag[Len(etag)] = tQuote THEN SubSeq(etag, 1, Len(etag) - 1) ELSE etag)
        \o <<tDash, tGzip, tQuote>>

etagStrongCmp(etags, etag) ==
    IF etag = <<>> \/ HasWeakPrefix(etag) THEN FALSE
    ELSE LET vs == SplitComma(etags, <<>>)
         IN  \E i \in 1..Len(vs) : TrimSpace(vs[i]) = etag

etagWeakCmp(etags, etag) ==
    IF etag = <<>> THEN FALSE ELSE ContainsStr(etags, TrimQuotes(etag))

isEtagMethod(m) == m \in {sGET, sHEAD}

sPUT == <<"P", "U", "T">>
sPATCH == <<"P", "A", "T", "C", "H">>
sOPTIONS == <<"O", "P", "T", "I", "O", "N", "S">>

\* strings.Contains("DELETE GET HEAD PATCH POST PUT", method)
EtagMethods == {sDELETE, sGET, sHEAD, sPATCH, sPOST, sPUT}

-----------------------------------------------------------------------------
(* The ETag filter, after next has returned: b is its buffer with what the *)
(* handler wrote, p is the filter's Context.  The result is the Context    *)
(* after the filter has returned and the deferred rb.Flush(ctx) has run.   *)
(* Requests carry no If-Unmodified-Since and no If-Modified-Since.         *)

\* "Do not pass GO": the statuses and methods that go to Finish at once
EtagSkips(status, method) ==
    \/ status < 200
    \/ status = StatusNoContent
    \/ (status > 299 /\ status # StatusPreconditionFailed)
    \/ method \notin EtagMethods

\* the entity tag: the one of the buffer's headers, or computed
EtagOf(b, method) ==
    LET given == HeaderGet(b.header, hETag)
        ce == HeaderGet(b.header, hContentEncoding)
        alter == IF ce # <<>> THEN <<tDash>> \o ce ELSE <<>>
    IN  IF isEtagMethod(method) /\ WriterStatus(b) = StatusOK /\ given = <<>>
        THEN Quoted(Sha1Hex(b.body) \o alter)
        ELSE given

\* Finish: the tag and Vary are put in the buffer's headers
EtagFinish(b, etag) ==
    IF etag # <<>>
    THEN [b EXCEPT !.header = HeaderAdd(HeaderSet(@, hETag, etag), hVary, <<"If-None-Match">>)]
    ELSE b

\* the buffer is freed and no status is written
EtagPreconditionFailed_NoStatus(p) == Flush(FreedBuffer, p)

\* ctx.WriteHeader(412); rb.Free(); the deferred Flush finds the buffer freed
EtagPreconditionFailed(p) == Flush(FreedBuffer, PairWriteHeader(p, StatusPreconditionFailed))

EtagNotModified(b, p, etag) ==
    Flush(BufferReset(WriterWriteHeader(EtagFinish(b, etag), StatusNotModified)), p)

EtagAfter(f, r, b, p) ==
    IF EtagSkips(WriterStatus(b), r.method) THEN Flush(b, p)
    ELSE LET etag == EtagOf(b, r.method)
         IN  IF f.disableConditionals THEN Flush(EtagFinish(b, etag), p)
             ELSE IF r.ifMatch # <<>>
                     /\ ((r.ifMatch = <<tStar>> /\ etag = <<>>) \/ ~etagStrongCmp(r.ifMatch, etag))
             THEN EtagPreconditionFailed(p)
             ELSE IF r.ifNoneMatch # <<>>
                     /\ ((r.ifNoneMatch = <<tStar>> /\ etag # <<>>) \/ etagWeakCmp(r.ifNoneMatch, etag))
             THEN IF isEtagMethod(r.method) THEN EtagNotModified(b, p, etag)
                  ELSE EtagPreconditionFailed(p)
             ELSE Flush(EtagFinish(b, etag), p)

-----------------------------------------------------------------------------
(* The gzip filter.  Accept-Encoding is a list of (name, q) with q in      *)
(* tenths; requests carry no If-Range, handlers set no Content-Range.      *)

BestSpeed == 1
BestCompression == 9
DefaultMinLength == 100

\* Filter.Run, before it returns the closure: the fields it rewrites
GzipRun(f) ==
    [f EXCEPT !.level = IF f.level = 0 \/ f.level > BestCompression THEN BestSpeed ELSE @,
              !.minLength = IF f.minLength = 0 THEN DefaultMinLength ELSE @]

\* strings.Contains(encodings, "gzip") || encodings == "*"
AcceptsGzip(enc) ==
    \/ \E i \in 1..Len(enc) : enc[i].name \in {"gzip", "x-gzip"}
    \/ (Len(enc) = 1 /\ enc[1].name = "*" /\ enc[1].q = 10)

\* relax.ParsePreferences, and the search for a better liked encoding
PrefNames(enc) == {enc[i].name : i \in 1..Len(enc)}
PrefOf(enc, n) ==
    LET is == {i \in 1..Len(enc) : enc[i].name = n}
    IN  IF is = {} THEN 0 ELSE enc[CHOOSE i \in is : \A j \in is : j <= i].q
GzipPref(enc) ==
    IF "x-gzip" \in PrefNames(enc) THEN PrefOf(enc, "x-gzip") ELSE PrefOf(enc, "gzip")
PrefersOther(enc) ==
    /\ Cardinality(PrefNames(enc)) > 1
    /\ \E n \in PrefNames(enc) \ {"gzip"} : PrefOf(enc, n) > GzipPref(enc)

\* the closure calls next(ctx) with its own Context: nothing is buffered
GzipPassesThrough(f, r) ==
    \/ f.level = 0
    \/ ~AcceptsGzip(r.acceptEncoding)
    \/ PrefersOther(r.acceptEncoding)

\* the default case without the rewrite of the tag
GzipCompress_KeepEtag(b, p) ==
    LET b1 == [b EXCEPT !.header = HeaderAdd(@, hContentEncoding, <<tGzip>>)]
        w1 == FlushHeaderRaw(b1, p.wr)
        w2 == WriterWrite(w1, Gzip(b1.body))
    IN  Flush(FreedBuffer, [p EXCEPT !.wr = w2])

\* the default case of the switch: the buffer is sent compressed through
\* the writer under the Context; rb.Free() and the deferred calls follow
GzipCompress(b, p) ==
    LET b1 == [b EXCEPT !.header = HeaderAdd(@, hContentEncoding, <<tGzip>>)]
        etag == HeaderGet(b1.header, hETag)
        b2 == IF etag # <<>> /\ ~Contains(etag, tGzip)
              THEN [b1 EXCEPT !.header = HeaderSet(@, hETag, EtagGzip(etag))]
              ELSE b1
        w1 == FlushHeaderRaw(b2, p.wr)
        w2 == WriterWrite(w1, Gzip(b2.body))
    IN  Flush(FreedBuffer, [p EXCEPT !.wr = w2])

\* does the switch reach its default case
GzipWanted(f, b) ==
    LET status == WriterStatus(b)
    IN  /\ status # StatusNotModified
        /\ ~(status = StatusNoContent \/ status > 299 \/ status < 200)
        /\ ~Contains(HeaderGet(b.header, hContentEncoding), tGzip)
        /\ ~(Len(b.body) < f.minLength)

GzipAfter(f, b, p) ==
    IF WriterStatus(b) = StatusNotModified
    THEN Flush(b, PairWriteHeader(p, StatusNotModified))
    ELSE IF GzipWanted(f, b) THEN GzipCompress(b, p)
    ELSE Flush(b, p)

-----------------------------------------------------------------------------
(* A service with the ETag filter, the gzip filter or both, serving one    *)
(* request at a time.                                                      *)

fEtag == "etag"
fGzip == "gzip"

TagLong == Quoted(Sha1Hex(LongBody))
TagOther == Quoted(<<"0000">>)
TagPreset == Quoted(<<"v1">>)

\* the values of If-None-Match and If-Match of the requests
IfNoneMatchValues == {<<>>, <<tStar>>, TagLong, TagOther}
IfMatchValues == {<<>>, <<tStar>>, TagOther \o <<tComma, tSpace>> \o TagLong, TagOther}

\* the values of Accept-Encoding: none, "gzip", "deflate;q=0.9, gzip;q=0.8"
AcceptEncodings ==
    {<<>>, <<[name |-> "gzip", q |-> 10]>>,
     <<[name |-> "deflate", q |-> 9], [name |-> "gzip", q |-> 8]>>}

Requests ==
    [method : {sGET, sPOST}, ifNoneMatch : IfNoneMatchValues,
     ifMatch : IfMatchValues, acceptEncoding : AcceptEncodings]

\* what the handler does: ctx.Header().Set("ETag", etag) if etag is not
\* empty, then ctx.Respond(body, code) or, for 404, ctx.Error(404, ...);
\* code NoCode is Respond without a code, 201 the answer to a creation
HandlerPlans ==
    [code : {NoCode, StatusOK}, body : {ShortBody, LongBody}, etag : {<<>>, TagPreset}]
        \cup [code : {StatusNotFound}, body : {NotFoundBody}, etag : {<<>>}]
        \cup [code : {StatusCreated}, body : {LongBody}, etag : {<<>>}]

\* the settings of gzip.Filter and of etag.Filter
GzipLevels == {0, BestSpeed}
GzipMinLengths == {0, MinLengthSet}

NoExchange ==
    [pc |-> "idle", request |-> [method |-> <<>>, ifNoneMatch |-> <<>>, ifMatch |-> <<>>,
                                 acceptEncoding |-> <<>>],
     plan |-> [code |-> NoCode, body |-> <<>>, etag |-> <<>>],
     levels |-> <<>>, frames |-> <<>>, handled |-> <<>>, returned |-> <<>>]

NoPipeline == [order |-> <<>>, given |-> <<>>]

InOrder(name) == \E i \in 1..Len(pipeline.order) : pipeline.order[i].name = name

\* Service.Use(&etag.Filter{DisableConditionals: d})
UseEtag(d) ==
    /\ exchange.pc = "idle"
    /\ ~InOrder(fEtag)
    /\ LET f == [name |-> fEtag, disableConditionals |-> d, level |-> 0, minLength |-> 0]
       IN  pipeline' = [order |-> Append(pipeline.order, f), given |-> Append(pipeline.given, f)]
    /\ UNCHANGED <<exchange, routerVars, contextVars, chainVars, resourceVars, adapterVars, laterVars>>

\* Service.Use(&gzip.Filter{CompressionLevel: level, MinLength: minLength})
UseGzip(level, minLength) ==
    /\ exchange.pc = "idle"
    /\ ~InOrder(fGzip)
    /\ LET f == [name |-> fGzip, disableConditionals |-> FALSE, level |-> level,
                 minLength |-> minLength]
       IN  pipeline' = [order |-> Append(pipeline.order, f), given |-> Append(pipeline.given, f)]
    /\ UNCHANGED <<exchange, routerVars, contextVars, chainVars, resourceVars, adapterVars, laterVars>>

\* Filter.Run of each filter, as Adapter calls it
RunFilter(f) == IF f.name = fGzip THEN GzipRun(f) ELSE f

\* Service.ServeHTTP: Adapter runs every filter's Run, makes the Context
\* of the request and calls the chain
PipeServe(r, plan) ==
    /\ exchange.pc = "idle"
    /\ pipeline.order # <<>>
    /\ pipeline' = [pipeline EXCEPT
                       !.order = [i \in 1..Len(pipeline.order) |-> RunFilter(pipeline.order[i])]]
    /\ exchange' = [pc |-> "call", request |-> r, plan |-> plan,
                    levels |-> <<NewPair(ClientWriter)>>, frames |-> <<>>, handled |-> <<>>,
                    returned |-> <<>>]
    /\ UNCHANGED <<routerVars, contextVars, chainVars, resourceVars, adapterVars, laterVars>>

\* the Context the next stage is called with, and the filter to call
TopPair == exchange.levels[Len(exchange.levels)]
NextFilter == pipeline.order[Len(exchange.frames) + 1]

\* the closure of etag.Filter is called: it makes its buffer and calls next
\* with a clone of its Context
EtagCalled ==
    /\ exchange.pc = "call"
    /\ Len(exchange.frames) < Len(pipeline.order)
    /\ NextFilter.name = fEtag
    /\ exchange' = [exchange EXCEPT
                       !.frames = Append(@, [filter |-> NextFilter, buffered |-> TRUE]),
                       !.levels = Append(@, NewPair(NewResponseBuffer(TopPair.wr)))]
    /\ UNCHANGED <<pipeline, routerVars, contextVars, chainVars, resourceVars, adapterVars, laterVars>>

\* the closure of gzip.Filter is called: it adds Vary and calls next, with
\* its own Context or with a clone that writes to its buffer
GzipCalled ==
    /\ exchange.pc = "call"
    /\ Len(exchange.frames) < Len(pipeline.order)
    /\ NextFilter.name = fGzip
    /\ LET p == PairHeaderAdd(TopPair, hVary, <<"Accept-Encoding">>)
           n == Len(exchange.levels)
           through == GzipPassesThrough(NextFilter, exchange.request)
       IN  exchange' = [exchange EXCEPT
               !.frames = Append(@, [filter |-> NextFilter, buffered |-> ~through]),
               !.levels = IF through THEN [@ EXCEPT ![n] = p]
                          ELSE Append([@ EXCEPT ![n] = p], NewPair(NewResponseBuffer(p.wr)))]
    /\ UNCHANGED <<pipeline, routerVars, contextVars, chainVars, resourceVars, adapterVars, laterVars>>

\* the handler, with the Context the innermost filter called it with
HandlerResponds(p, plan) ==
    LET p1 == IF plan.etag # <<>> THEN PairHeaderSet(p, hETag, plan.etag) ELSE p
        p2 == IF plan.code # NoCode THEN PairWriteHeader(p1, plan.code) ELSE p1
    IN  [p2 EXCEPT !.wr = WriterWrite(p2.wr, plan.body)]

HandlerCalled ==
    /\ exchange.pc = "call"
    /\ Len(exchange.frames) = Len(pipeline.order)
    /\ LET n == Len(exchange.levels)
           p == HandlerResponds(TopPair, exchange.plan)
       IN  exchange' = [exchange EXCEPT !.pc = "return", !.levels[n] = p, !.handled = p.wr]
    /\ UNCHANGED <<pipeline, routerVars, contextVars, chainVars, resourceVars, adapterVars, laterVars>>

\* next has returned to the innermost filter called: the filter does the
\* rest of its closure, its deferred calls included, and returns
FilterReturns ==
    /\ exchange.pc = "return"
    /\ exchange.frames # <<>>
    /\ LET k == Len(exchange.frames)
           fr == exchange.frames[k]
           n == Len(exchange.levels)
           b == exchange.levels[n].wr
           p == exchange.levels[n - 1]
           after == IF fr.filter.name = fEtag
                    THEN EtagAfter(fr.filter, exchange.request, b, p)
                    ELSE GzipAfter(fr.filter, b, p)
           out == IF fr.buffered THEN after ELSE exchange.levels[n]
       IN  exchange' = [exchange EXCEPT
               !.frames = SubSeq(@, 1, k - 1),
               !.levels = IF fr.buffered
                          THEN Append(SubSeq(@, 1, n - 2), after)
                          ELSE @,
               !.returned = Append(@, [name |-> fr.filter.name, wr |-> out.wr])]
    /\ UNCHANGED <<pipeline, routerVars, contextVars, chainVars, resourceVars, adapterVars, laterVars>>

\* the chain has returned: net/http ends the response, sending StatusOK
\* and the headers if nothing was sent
PipeServed ==
    /\ exchange.pc = "return"
    /\ exchange.frames = <<>>
    /\ exchange' = [exchange EXCEPT
                       !.pc = "done",
                       !.levels[1].wr = WriterWriteHeader(@, StatusOK)]
    /\ UNCHANGED <<pipeline, routerVars, contextVars, chainVars, resourceVars, adapterVars, laterVars>>

\* the function of Adapter returns: the Context is freed
PipeFree ==
    /\ exchange.pc = "done"
    /\ exchange' = NoExchange
    /\ UNCHANGED <<pipeline, routerVars, contextVars, chainVars, resourceVars, adapterVars, laterVars>>

PipeInit ==
    /\ pipeline = NoPipeline
    /\ exchange = NoExchange

PipeNext ==
    \/ \E d \in BOOLEAN : UseEtag(d)
    \/ \E level \in GzipLevels, n \in GzipMinLengths : UseGzip(level, n)
    \/ \E r \in Requests, plan \in HandlerPlans : PipeServe(r, plan)
    \/ EtagCalled
    \/ GzipCalled
    \/ HandlerCalled
    \/ FilterReturns
    \/ PipeServed
    \/ PipeFree

\* the response the client got
Client == exchange.levels[1].wr

\* exchange.handled: the writer of the handler's Context when the handler
\* returned; exchange.returned: for each filter that has returned, the
\* writer of its Context when it returned

-----------------------------------------------------------------------------
(* Service.Adapter: the request's Context, its clones, and panics.        *)
(* A request goes down the chain of filters (a buffering filter clones    *)
(* the Context over a ResponseBuffer), is dispatched, runs the resource   *)
(* handler, and comes back up through the filters.                        *)

MaxClones == 2

\* the keys of the values a context.Context carries here
kContextKey == "contextKey{}"
kStartTime == "request.start_time"
kRequestId == "request.id"
kExtra == "extra"
ContextKeys == {kContextKey, kStartTime, kRequestId, kExtra}
NoValue == "nil"

\* context.Background(): no value, never cancelled
Background == [values |-> [k \in ContextKeys |-> NoValue], cancelled |-> FALSE]

\* context.WithValue(c, k, v): a new context; c itself is not changed
WithValue(c, k, v) == [c EXCEPT !.values[k] = v]

\* the contexts a request can arrive with
RequestContexts ==
    {[c EXCEPT !.cancelled = d] :
        c \in {Background, WithValue(Background, kContextKey, "retained")},
        d \in BOOLEAN}

\* url.Values of the path: nil is reference 0, a map is a reference into
\* the maps made so far
PathKeys == {"_1", "id"}
EmptyValues == [k \in PathKeys |-> <<>>]

\* "Internal Server Error\n", the body http.Error writes
ErrorText == <<"Internal Server Error", "\n">>
StatusInternalServerError == 500

\* newContext(parent, w, r)
newContext(parent, wr) ==
    [pair |-> NewPair(wr), Context |-> parent, PathValues |-> 0, Encode |-> "nil"]

\* Context.Clone(w)
Clone(c, wr) ==
    [pair |-> NewPair(wr), Context |-> c.Context, PathValues |-> c.PathValues,
     Encode |-> c.Encode]

\* Context.Set(key, value): the receiver's Context is replaced
ContextSet(c, k, v) == [c EXCEPT !.Context = WithValue(@, k, v)]

\* Context.Get(key)
ContextGet(c, k) == c.Context.values[k]

\* the path values read through a Context
PathValuesOf(c, maps) == IF c.PathValues = 0 THEN EmptyValues ELSE maps[c.PathValues]

\* InternalServerError(w, r): http.Error on the writer net/http gave
InternalServerError(wr) ==
    WriterWrite(WriterWriteHeader(wr, StatusInternalServerError), ErrorText)

NoAdapterReq ==
    [pc |-> "idle", request |-> Background, captures |-> FALSE, levels |-> <<>>,
     maps |-> <<>>, dispatched |-> FALSE, seen |-> <<>>, did |-> {},
     panicked |-> FALSE, recovered |-> FALSE, w |-> ClientWriter]

AdapterTop == adapterReq.levels[Len(adapterReq.levels)]

\* the closure of Adapter up to handler(ctx), and the content filter, which
\* sets Encode before it calls next
AdapterServe(rc, captures) ==
    /\ adapterReq.pc = "idle"
    /\ LET c0 == newContext(Background, ClientWriter)
           c1 == ContextSet(ContextSet(c0, kStartTime, "now"), kRequestId, "id")
           c2 == [c1 EXCEPT !.Encode = "json"]
       IN  adapterReq' = [NoAdapterReq EXCEPT !.pc = "down", !.request = rc,
                              !.captures = captures, !.levels = <<c2>>]
    /\ UNCHANGED <<routerVars, contextVars, chainVars, resourceVars, pipeVars, laterVars>>

\* a buffering filter: rb := NewResponseBuffer(ctx); next(ctx.Clone(rb))
FilterClones ==
    /\ adapterReq.pc = "down"
    /\ Len(adapterReq.levels) <= MaxClones
    /\ adapterReq' = [adapterReq EXCEPT
           !.levels = Append(@, Clone(AdapterTop, NewResponseBuffer(AdapterTop.pair.wr)))]
    /\ UNCHANGED <<routerVars, contextVars, chainVars, resourceVars, pipeVars, laterVars>>

\* a filter stores an extra through its Context before it calls next
FilterSets ==
    /\ adapterReq.pc = "down"
    /\ "filterSet" \notin adapterReq.did
    /\ adapterReq' = [adapterReq EXCEPT
           !.levels[Len(adapterReq.levels)] = ContextSet(@, kExtra, "filter"),
           !.did = @ \cup {"filterSet"}]
    /\ UNCHANGED <<routerVars, contextVars, chainVars, resourceVars, pipeVars, laterVars>>

\* dispatch: FindHandler(method, path, &ctx.PathValues); matchSegment makes
\* the map when a segment matches an expression and *values is nil
AdapterDispatch ==
    /\ adapterReq.pc = "down"
    /\ ~adapterReq.dispatched
    /\ LET n == Len(adapterReq.levels)
           made == adapterReq.captures /\ AdapterTop.PathValues = 0
           ref == IF made THEN Len(adapterReq.maps) + 1 ELSE AdapterTop.PathValues
           maps1 == IF made THEN Append(adapterReq.maps, EmptyValues) ELSE adapterReq.maps
           maps2 == IF adapterReq.captures
                    THEN [maps1 EXCEPT ![ref] = [@ EXCEPT !["_1"] = <<"123">>, !["id"] = <<"123">>]]
                    ELSE maps1
       IN  adapterReq' = [adapterReq EXCEPT !.dispatched = TRUE, !.maps = maps2,
                              !.levels[n].PathValues = ref]
    /\ UNCHANGED <<routerVars, contextVars, chainVars, resourceVars, pipeVars, laterVars>>

\* the resource handler is entered; it reads ctx.Context first
AdapterHandlerCalled ==
    /\ adapterReq.pc = "down"
    /\ adapterReq.dispatched
    /\ adapterReq' = [adapterReq EXCEPT !.pc = "handler",
           !.seen = <<[value |-> ContextGet(AdapterTop, kContextKey),
                       cancelled |-> AdapterTop.Context.cancelled]>>]
    /\ UNCHANGED <<routerVars, contextVars, chainVars, resourceVars, pipeVars, laterVars>>

\* the handler: ctx.Set("extra", v)
AdapterHandlerSets ==
    /\ adapterReq.pc = "handler"
    /\ "set" \notin adapterReq.did
    /\ adapterReq' = [adapterReq EXCEPT
           !.levels[Len(adapterReq.levels)] = ContextSet(@, kExtra, "handler"),
           !.did = @ \cup {"set"}]
    /\ UNCHANGED <<routerVars, contextVars, chainVars, resourceVars, pipeVars, laterVars>>

\* the handler: ctx.Respond("ok"); Encode writes to ctx.ResponseWriter
AdapterHandlerResponds ==
    /\ adapterReq.pc = "handler"
    /\ "respond" \notin adapterReq.did
    /\ adapterReq' = [adapterReq EXCEPT
           !.levels[Len(adapterReq.levels)].pair.wr = WriterWrite(@, ShortBody),
           !.did = @ \cup {"respond"}]
    /\ UNCHANGED <<routerVars, contextVars, chainVars, resourceVars, pipeVars, laterVars>>

\* the handler returns to the filter that called it
AdapterHandlerReturns ==
    /\ adapterReq.pc = "handler"
    /\ adapterReq' = [adapterReq EXCEPT !.pc = "up"]
    /\ UNCHANGED <<routerVars, contextVars, chainVars, resourceVars, pipeVars, laterVars>>

\* a buffering filter returns: its deferred rb.Flush(ctx) runs
AdapterFilterReturns ==
    /\ adapterReq.pc = "up"
    /\ Len(adapterReq.levels) > 1
    /\ LET n == Len(adapterReq.levels)
       IN  adapterReq' = [adapterReq EXCEPT
               !.levels = [i \in 1..(n - 1) |->
                   IF i = n - 1
                   THEN [adapterReq.levels[i] EXCEPT
                            !.pair = Flush(adapterReq.levels[n].pair.wr, @)]
                   ELSE adapterReq.levels[i]]]
    /\ UNCHANGED <<routerVars, contextVars, chainVars, resourceVars, pipeVars, laterVars>>

\* handler(ctx) returns to the closure: ctx.free() puts the Context back in
\* the pool; net/http sends StatusOK if no status was sent
AdapterReturns ==
    /\ adapterReq.pc = "up"
    /\ Len(adapterReq.levels) = 1
    /\ adapterReq' = [adapterReq EXCEPT !.pc = "done", !.levels = <<>>,
           !.w = WriterWriteHeader(adapterReq.levels[1].pair.wr, StatusOK)]
    /\ UNCHANGED <<routerVars, contextVars, chainVars, resourceVars, pipeVars, laterVars>>

\* the writer of the client after the deferred calls that a panic runs: a
\* filter whose next has returned has registered rb.Flush(ctx); a filter
\* whose next panicked has not
AfterUnwind ==
    LET n == Len(adapterReq.levels)
    IN  IF adapterReq.pc = "up" /\ n = 2
        THEN Flush(adapterReq.levels[2].pair.wr, adapterReq.levels[1].pair).wr
        ELSE adapterReq.levels[1].pair.wr

\* a filter or the handler panics: the deferred calls run, ctx.free() among
\* them; the last of them recovers and calls svc.Recovery(w, r)
AdapterPanics ==
    /\ adapterReq.pc \in {"down", "handler", "up"}
    /\ adapterReq' = [adapterReq EXCEPT !.pc = "done", !.levels = <<>>,
           !.panicked = TRUE, !.recovered = TRUE,
           !.w = InternalServerError(AfterUnwind)]
    /\ UNCHANGED <<routerVars, contextVars, chainVars, resourceVars, pipeVars, laterVars>>

\* the handler: ctx.Respond(v) with a value that Encode cannot encode.
\* Encode writes nothing and returns the error; Respond panics with it, the
\* deferred calls run and the closure of Adapter recovers
AdapterRespondFails ==
    /\ adapterReq.pc = "handler"
    /\ "respond" \notin adapterReq.did
    /\ adapterReq' = [adapterReq EXCEPT !.pc = "done", !.levels = <<>>,
           !.panicked = TRUE, !.recovered = TRUE,
           !.did = @ \cup {"respondFailed"},
           !.w = InternalServerError(AfterUnwind)]
    /\ UNCHANGED <<routerVars, contextVars, chainVars, resourceVars, pipeVars, laterVars>>

\* the next request
AdapterFree ==
    /\ adapterReq.pc = "done"
    /\ adapterReq' = NoAdapterReq
    /\ UNCHANGED <<routerVars, contextVars, chainVars, resourceVars, pipeVars, laterVars>>

AdapterInit == adapterReq = NoAdapterReq

AdapterNext ==
    \/ \E rc \in RequestContexts, captures \in BOOLEAN : AdapterServe(rc, captures)
    \/ FilterClones
    \/ FilterSets
    \/ AdapterDispatch
    \/ AdapterHandlerCalled
    \/ AdapterHandlerSets
    \/ AdapterHandlerResponds
    \/ AdapterRespondFails
    \/ AdapterHandlerReturns
    \/ AdapterFilterReturns
    \/ AdapterReturns
    \/ AdapterPanics
    \/ AdapterFree

-----------------------------------------------------------------------------
(* The token bucket of the Usage filter: MemBucket.  The LRU cache holds   *)
(* a pointer to a tokenBucket per key; one key is used.  A call of Consume *)
(* is a sequence of steps of its goroutine: the cache has a lock of its    *)
(* own, the fields of a tokenBucket have none.  Time is in seconds.        *)

MaxCalls == 3
MaxTime == 60

TickSeconds == 30
StatusTooManyRequests == 429

Goroutines == {"g1", "g2"}
Capacities == {1, 2}
FillRates == {1, 2}

\* the tokens a Usage filter takes per request (Usage.Ration, default)
Ration == 1

Min(a, b) == IF a < b THEN a ELSE b

\* wait with the rate read as tokens per second
wait_PerSecond(rate, needed) == needed \div (rate * 60)

\* MemBucket.wait: float64(needed/Rate) + float64(needed%Rate)*(1e-9/60.0)*60.0,
\* truncated; the second term is below 1
wait(rate, needed) == needed \div rate

\* int(float64(Rate) * time.Since(When).Minutes())
Refill(rate, since) == (rate * since) \div 60

NoGoroutine == [pc |-> "idle", op |-> "none", start |-> 0, tb |-> 0, alone |-> TRUE]

NoBucket ==
    [made |-> FALSE, Size |-> 0, Rate |-> 0, cache |-> 0, heap |-> <<>>, now |-> 0,
     procs |-> [g \in Goroutines |-> NoGoroutine], calls |-> 0, log |-> <<>>]

\* NewMemBucket(maxKeys, capacity, rate)
NewMemBucket(capacity, rate) ==
    /\ ~memBucket.made
    /\ memBucket' = [memBucket EXCEPT !.made = TRUE, !.Size = capacity, !.Rate = rate]
    /\ UNCHANGED notBucketVars

\* time passes between calls
BucketTick ==
    /\ memBucket.made
    /\ \A g \in Goroutines : memBucket.procs[g].pc = "idle"
    /\ memBucket.now + TickSeconds <= MaxTime
    /\ memBucket' = [memBucket EXCEPT !.now = @ + TickSeconds]
    /\ UNCHANGED notBucketVars

\* a call starts while another is running: neither is alone
Started(g, op) ==
    [h \in Goroutines |->
        IF h = g
        THEN [pc |-> "fill", op |-> op, start |-> memBucket.now, tb |-> 0,
              alone |-> \A o \in Goroutines \ {g} : memBucket.procs[o].pc = "idle"]
        ELSE IF memBucket.procs[h].pc # "idle"
             THEN [memBucket.procs[h] EXCEPT !.alone = FALSE]
             ELSE memBucket.procs[h]]

\* the closure of Usage.Run calls f.Consume(key, f.Ration); fill reads the clock
ConsumeCalled(g) ==
    /\ memBucket.made
    /\ memBucket.procs[g].pc = "idle"
    /\ memBucket.calls < MaxCalls
    /\ memBucket' = [memBucket EXCEPT !.procs = Started(g, "Consume"), !.calls = @ + 1]
    /\ UNCHANGED notBucketVars

\* fill: cache, ok := b.Cache.Get(key)
FillGet(g) ==
    /\ memBucket.procs[g].pc = "fill"
    /\ memBucket' = [memBucket EXCEPT
           !.procs[g].pc = IF memBucket.cache = 0 THEN "add" ELSE "refill",
           !.procs[g].tb = memBucket.cache]
    /\ UNCHANGED notBucketVars

\* fill, key not found: a new tokenBucket, full; b.Cache.Add(key, tb)
FillAdd(g) ==
    /\ memBucket.procs[g].pc = "add"
    /\ LET tb == [Tokens |-> memBucket.Size, When |-> memBucket.procs[g].start]
       IN  memBucket' = [memBucket EXCEPT
               !.heap = Append(@, tb),
               !.cache = Len(memBucket.heap) + 1,
               !.procs[g].tb = Len(memBucket.heap) + 1,
               !.procs[g].pc = "check"]
    /\ UNCHANGED notBucketVars

\* fill, key found: tokens are added for the time since tb.When
FillRefill(g) ==
    /\ memBucket.procs[g].pc = "refill"
    /\ LET i == memBucket.procs[g].tb
           tb == memBucket.heap[i]
           tokens == IF tb.Tokens < memBucket.Size
                     THEN Min(memBucket.Size,
                              tb.Tokens + Refill(memBucket.Rate, memBucket.now - tb.When))
                     ELSE tb.Tokens
       IN  memBucket' = [memBucket EXCEPT
               !.heap[i] = [Tokens |-> tokens, When |-> memBucket.procs[g].start],
               !.procs[g].pc = "check"]
    /\ UNCHANGED notBucketVars

\* what the closure of Usage.Run does with the result of Consume
UsageResponse(tokens, when, ok) ==
    IF ok
    THEN [status |-> StatusOK, next |-> TRUE, retryAfter |-> 0, remaining |-> tokens]
    ELSE [status |-> StatusTooManyRequests, next |-> FALSE, retryAfter |-> when,
          remaining |-> tokens]

Finished(g, tokens, when, ok) ==
    [op |-> memBucket.procs[g].op, g |-> g, at |-> memBucket.procs[g].start,
     alone |-> memBucket.procs[g].alone, ok |-> ok, tokens |-> tokens, when |-> when,
     response |-> UsageResponse(tokens, when, ok)]

\* Consume: "if tb.Tokens < n": the call returns without a token
ConsumeRejects(g) ==
    /\ memBucket.procs[g].pc = "check"
    /\ LET tb == memBucket.heap[memBucket.procs[g].tb]
       IN  /\ tb.Tokens < Ration
           /\ memBucket' = [memBucket EXCEPT
                  !.procs[g] = NoGoroutine,
                  !.log = Append(@, Finished(g, tb.Tokens,
                                    wait(memBucket.Rate, Ration - tb.Tokens), FALSE))]
    /\ UNCHANGED notBucketVars

\* Consume: the test passes
ConsumeChecks(g) ==
    /\ memBucket.procs[g].pc = "check"
    /\ memBucket.heap[memBucket.procs[g].tb].Tokens >= Ration
    /\ memBucket' = [memBucket EXCEPT !.procs[g].pc = "take"]
    /\ UNCHANGED notBucketVars

\* Consume: tb.Tokens -= n; return tb.Tokens, b.wait(b.Size), true
ConsumeTakes(g) ==
    /\ memBucket.procs[g].pc = "take"
    /\ LET i == memBucket.procs[g].tb
           tokens == memBucket.heap[i].Tokens - Ration
       IN  memBucket' = [memBucket EXCEPT
               !.heap[i].Tokens = tokens,
               !.procs[g] = NoGoroutine,
               !.log = Append(@, Finished(g, tokens,
                                 wait(memBucket.Rate, memBucket.Size), TRUE))]
    /\ UNCHANGED notBucketVars

\* MemBucket.Reset(key)
BucketReset(g) ==
    /\ memBucket.made
    /\ memBucket.procs[g].pc = "idle"
    /\ memBucket.calls < MaxCalls
    /\ LET i == memBucket.cache
           entry == [Finished(g, 0, 0, TRUE) EXCEPT !.op = "Reset", !.at = memBucket.now,
                        !.alone = \A o \in Goroutines \ {g} : memBucket.procs[o].pc = "idle"]
       IN  memBucket' = [memBucket EXCEPT
               !.heap = IF i = 0 THEN @
                        ELSE [@ EXCEPT ![i] = [Tokens |-> memBucket.Size, When |-> memBucket.now]],
               !.procs = [h \in Goroutines |->
                             IF memBucket.procs[h].pc # "idle"
                             THEN [memBucket.procs[h] EXCEPT !.alone = FALSE]
                             ELSE memBucket.procs[h]],
               !.calls = @ + 1,
               !.log = Append(@, entry)]
    /\ UNCHANGED notBucketVars

BucketInit == memBucket = NoBucket

BucketNext ==
    \/ \E capacity \in Capacities, rate \in FillRates : NewMemBucket(capacity, rate)
    \/ BucketTick
    \/ \E g \in Goroutines :
        \/ ConsumeCalled(g)
        \/ FillGet(g)
        \/ FillAdd(g)
        \/ FillRefill(g)
        \/ ConsumeRejects(g)
        \/ ConsumeChecks(g)
        \/ ConsumeTakes(g)
        \/ BucketReset(g)

-----------------------------------------------------------------------------
(* The Throttle filter.  Run makes a limiter: a channel of capacity Burst  *)
(* and a goroutine that sends Burst values and then one value per tick of  *)
(* time.Tick, whose own channel holds one tick.  The closure of Run does   *)
(* "select { case <-limiter: next(ctx); default: 429 }".                   *)

MaxAdapters == 2
MaxRequests == 3
MaxTicks == 2

Bursts == {0, 1, 2}

\* process(): the channel is empty and the goroutine has sent nothing
NewLimiter == [buf |-> 0, pc |-> "preload", sent |-> 0, tick |-> 0]

NoThrottle ==
    [used |-> FALSE, Burst |-> 0, limiters |-> <<>>, handler |-> 0, pending |-> 0,
     via |-> "none", served |-> <<>>, ticks |-> 0, sinceTick |-> 0]

\* svc.Use(&limits.Throttle{Burst: burst})
ThrottleUse(burst) ==
    /\ ~throttle.used
    /\ throttle' = [throttle EXCEPT !.used = TRUE, !.Burst = burst]
    /\ UNCHANGED notThrottleVars

\* svc.Handler(): Adapter() calls Run of every filter, Run calls process()
ServiceHandler ==
    /\ throttle.used
    /\ throttle.handler = 0
    /\ Len(throttle.limiters) < MaxAdapters
    /\ throttle' = [throttle EXCEPT !.limiters = Append(@, NewLimiter),
                                    !.handler = Len(throttle.limiters) + 1]
    /\ UNCHANGED notThrottleVars

\* a request to the handler that Service.Handler returned
HandlerServeHTTP ==
    /\ throttle.handler # 0
    /\ throttle.pending = 0
    /\ Len(throttle.served) < MaxRequests
    /\ throttle' = [throttle EXCEPT !.pending = throttle.handler, !.via = "Handler"]
    /\ UNCHANGED notThrottleVars

\* Service.ServeHTTP: svc.Adapter().ServeHTTP(w, r), up to the closure of Run
ServiceServeHTTP ==
    /\ throttle.used
    /\ throttle.pending = 0
    /\ Len(throttle.served) < MaxRequests
    /\ Len(throttle.limiters) < MaxAdapters
    /\ throttle' = [throttle EXCEPT !.limiters = Append(@, NewLimiter),
                                    !.pending = Len(throttle.limiters) + 1,
                                    !.via = "ServeHTTP"]
    /\ UNCHANGED notThrottleVars

\* a receive from the channel: a buffered value, or the value of the
\* goroutine blocked in its send
Receive(l) ==
    IF l.buf > 0
    THEN IF l.pc = "blocked" THEN [l EXCEPT !.pc = "range"] ELSE [l EXCEPT !.buf = @ - 1]
    ELSE [l EXCEPT !.pc = "range"]

CanReceive(l) == l.buf > 0 \/ l.pc = "blocked"

\* the closure of Run: the select
ThrottleSelects ==
    /\ throttle.pending # 0
    /\ LET i == throttle.pending
           l == throttle.limiters[i]
           ok == CanReceive(l)
       IN  throttle' = [throttle EXCEPT
               !.limiters[i] = IF ok THEN Receive(l) ELSE l,
               !.pending = 0,
               !.served = Append(@, [via |-> throttle.via, limiter |-> i, next |-> ok,
                                     status |-> IF ok THEN StatusOK ELSE StatusTooManyRequests]),
               !.sinceTick = IF ok THEN @ + 1 ELSE @]
    /\ UNCHANGED notThrottleVars

\* the goroutine: "for i := 0; i < f.Burst; i++ { limiter <- time.Now() }"
ProducerPreloads(i) ==
    /\ throttle.limiters[i].pc = "preload"
    /\ throttle' = [throttle EXCEPT !.limiters[i] =
           IF @.sent < throttle.Burst
           THEN [@ EXCEPT !.buf = @ + 1, !.sent = @ + 1]
           ELSE [@ EXCEPT !.pc = "range"]]
    /\ UNCHANGED notThrottleVars

\* the goroutine: "for t := range time.Tick(...)" receives a tick
ProducerTakesTick(i) ==
    /\ throttle.limiters[i].pc = "range"
    /\ throttle.limiters[i].tick = 1
    /\ throttle' = [throttle EXCEPT !.limiters[i].tick = 0, !.limiters[i].pc = "send"]
    /\ UNCHANGED notThrottleVars

\* the goroutine: "limiter <- t": into the buffer, or it blocks
ProducerSends(i) ==
    /\ throttle.limiters[i].pc = "send"
    /\ throttle' = [throttle EXCEPT !.limiters[i] =
           IF @.buf < throttle.Burst
           THEN [@ EXCEPT !.buf = @ + 1, !.pc = "range"]
           ELSE [@ EXCEPT !.pc = "blocked"]]
    /\ UNCHANGED notThrottleVars

\* the period Per/Requests passes: every ticker sends a tick, which is
\* dropped if its channel still holds the tick before
TimerTicks ==
    /\ throttle.limiters # <<>>
    /\ throttle.pending = 0
    /\ throttle.ticks < MaxTicks
    /\ throttle' = [throttle EXCEPT
           !.limiters = [i \in 1..Len(throttle.limiters) |->
                            [throttle.limiters[i] EXCEPT !.tick = 1]],
           !.ticks = @ + 1,
           !.sinceTick = 0]
    /\ UNCHANGED notThrottleVars

ThrottleInit == throttle = NoThrottle

ThrottleNext ==
    \/ \E burst \in Bursts : ThrottleUse(burst)
    \/ ServiceHandler
    \/ HandlerServeHTTP
    \/ ServiceServeHTTP
    \/ ThrottleSelects
    \/ TimerTicks
    \/ \E i \in 1..Len(throttle.limiters) : ProducerPreloads(i)
    \/ \E i \in 1..Len(throttle.limiters) : ProducerTakesTick(i)
    \/ \E i \in 1..Len(throttle.limiters) : ProducerSends(i)

-----------------------------------------------------------------------------
(* The CORS filter.  Strings that are matched against patterns are          *)
(* sequences of tokens; a pattern is a sequence of tokens in which "*" is   *)
(* the wildcard that Run turns into ".*".  The patterns are compiled into   *)
(* the package variable allowOriginRegexp.                                  *)

MaxInstances == 2

StatusBadRequest == 400
StatusForbidden == 403
StatusMethodNotAllowed == 405

simpleMethods == {"GET", "HEAD", "POST"}
allowMethodsDefault == {"GET", "POST", "PATCH", "PUT", "DELETE"}
allowHeadersDefault ==
    {"Authorization", "Content-Type", "If-Match", "If-Modified-Since",
     "If-None-Match", "If-Unmodified-Since", "X-Requested-With"}

\* an origin: the text of the header, as url.ParseRequestURI reads it
Origin(scheme, host, path) == [scheme |-> scheme, host |-> host, path |-> path]

NoOrigin == Origin("", <<>>, "")
oAllowed == Origin("http", <<"allowed", ".example.com">>, "")
oUnique == Origin("http", <<"unique", ".example.com">>, "")
oOther == Origin("http", <<"other", ".example.org">>, "")
oAllowedPath == Origin("http", <<"allowed", ".example.com">>, "/x")
oBare == Origin("", <<"allowed", ".example.com">>, "")

Origins == {NoOrigin, oAllowed, oUnique, oOther, oAllowedPath, oBare}

\* the text of an origin
OriginString(o) ==
    (IF o.scheme = "" THEN <<>> ELSE <<o.scheme, "://">>) \o o.host
        \o (IF o.path = "" THEN <<>> ELSE <<o.path>>)

\* url.ParseRequestURI fails on a text with neither a scheme nor a leading "/"
ParseFails(o) == o.scheme = "" /\ o.host # <<>>

pAllowed == OriginString(oAllowed)
pUnique == OriginString(oUnique)
pSubdomains == <<"http", "://", "*", ".example.com">>

OriginLists == {<<>>, <<pAllowed>>, <<pUnique>>, <<pSubdomains>>}

HeaderLists == {{}, {"X-Token"}}

\* the FilterCORS values given to Run; an empty list stands for nil
CORSFilters ==
    [AllowOrigin : OriginLists \ {<<>>}, Strict : BOOLEAN, AllowHeaders : {{}},
     AllowAnyOrigin : {FALSE}, AllowCredentials : {FALSE}]
    \cup [AllowOrigin : {<<pAllowed>>}, Strict : BOOLEAN, AllowHeaders : {{"X-Token"}},
          AllowAnyOrigin : {FALSE}, AllowCredentials : {FALSE}]
    \cup [AllowOrigin : {<<>>}, Strict : BOOLEAN, AllowHeaders : {{}},
          AllowAnyOrigin : {TRUE}, AllowCredentials : {FALSE}]
    \cup [AllowOrigin : {<<pAllowed>>}, Strict : {FALSE}, AllowHeaders : {{}},
          AllowAnyOrigin : {FALSE}, AllowCredentials : {TRUE}]

RequestHeaderLists == {{}, {"Content-Type"}, {"X-Custom"}, {"Content-Type", "X-Custom"}, {"X-Token"}}

\* strarr.Diff is not in the repository: it is read as the elements of the
\* first list not in the second, or as those of the second not in the first
DiffReadings == {"first", "second"}

Diff(a, b, reading) == IF reading = "first" THEN a \ b ELSE b \ a

RECURSIVE MatchPrefix(_, _)
\* the compiled pattern matches a prefix of the text
MatchPrefix(pattern, text) ==
    IF pattern = <<>> THEN TRUE
    ELSE IF Head(pattern) = "*"
         THEN \E k \in 0..Len(text) :
                 MatchPrefix(Tail(pattern), SubSeq(text, k + 1, Len(text)))
         ELSE /\ text # <<>>
              /\ Head(text) = Head(pattern)
              /\ MatchPrefix(Tail(pattern), Tail(text))

\* regexp.MatchString: the pattern, not anchored, matches somewhere
MatchString(pattern, text) ==
    \E k \in 0..Len(text) : MatchPrefix(pattern, SubSeq(text, k + 1, Len(text)))

\* isOriginAllowed reads the package variable, whatever filter asks
isOriginAllowed(regexps, o) ==
    \E k \in 1..Len(regexps) : MatchString(regexps[k], OriginString(o))

NoCORSHeaders ==
    [acao |-> "", credentials |-> FALSE, vary |-> FALSE, allow |-> FALSE, preflight |-> FALSE,
     expose |-> FALSE]

corsHeaders(f, o) ==
    IF f.AllowCredentials
    THEN [NoCORSHeaders EXCEPT !.acao = OriginString(o), !.credentials = TRUE, !.vary = TRUE]
    ELSE IF f.Strict
         THEN IF f.AllowOrigin = <<>>
              THEN [NoCORSHeaders EXCEPT !.acao = "null"]
              ELSE [NoCORSHeaders EXCEPT !.acao = OriginString(o), !.vary = TRUE]
         ELSE [NoCORSHeaders EXCEPT !.acao = "*"]

\* the answer of the closure: the status, whether next ran, the headers set
CORSAnswer(status, called, headers) == [status |-> status, next |-> called, headers |-> headers]

CORSError(code) == CORSAnswer(code, FALSE, NoCORSHeaders)

handlePreflightRequest(f, o, rmethod, rheaders, reading) ==
    IF rmethod \notin simpleMethods /\ rmethod \notin f.AllowMethods
    THEN CORSAnswer(StatusMethodNotAllowed, FALSE, [NoCORSHeaders EXCEPT !.allow = TRUE])
    ELSE IF rheaders # {} /\ Diff(rheaders, f.AllowHeaders, reading) = {}
         THEN CORSError(StatusForbidden)
         ELSE CORSAnswer(StatusNoContent, FALSE, [corsHeaders(f, o) EXCEPT !.preflight = TRUE])

handleSimpleRequest(f, o) == [corsHeaders(f, o) EXCEPT !.expose = f.ExposeHeaders # {}]

\* the closure that Run returns, for a request whose next handler answers 200
CORSClosure(f, regexps, reading, req) ==
    IF req.origin = NoOrigin
    THEN CORSAnswer(StatusOK, TRUE, NoCORSHeaders)
    ELSE IF ~f.AllowAnyOrigin /\ ~isOriginAllowed(regexps, req.origin)
    THEN IF f.Strict THEN CORSError(StatusForbidden)
         ELSE CORSAnswer(StatusOK, TRUE, NoCORSHeaders)
    ELSE IF f.Strict /\ ParseFails(req.origin)
    THEN CORSError(StatusBadRequest)
    ELSE IF f.Strict /\ (\/ req.host = req.origin.host
                         \/ req.origin.path # ""
                         \/ req.origin.scheme # "http")
    THEN CORSError(StatusBadRequest)
    ELSE IF req.method = "OPTIONS" /\ req.rmethod # ""
    THEN handlePreflightRequest(f, req.origin, req.rmethod, req.rheaders, reading)
    ELSE CORSAnswer(StatusOK, TRUE, handleSimpleRequest(f, req.origin))

\* the requests: the Host is the origin's own host in one of them; the
\* preflight headers come with OPTIONS only
CORSRequests ==
    LET targets == [origin : Origins, host : {<<"api", ".example.com">>}]
                       \cup [origin : {oAllowed}, host : {oAllowed.host}]
        asked == [method : {"GET", "OPTIONS"}, rmethod : {""}, rheaders : {{}}]
                     \cup [method : {"OPTIONS"}, rmethod : {"PUT"}, rheaders : RequestHeaderLists]
                     \cup [method : {"OPTIONS"}, rmethod : {"TRACE"}, rheaders : {{}}]
    IN  {t @@ a : t \in targets, a \in asked}

NoCORS ==
    [allowOriginRegexp |-> <<>>, instances |-> <<>>, reading |-> "none", served |-> <<>>]

\* FilterCORS.Run, up to the closure: the defaults, and the patterns of this
\* filter appended to the package variable
CORSRun(f, reading) ==
    /\ Len(cors.instances) < MaxInstances
    /\ cors.reading \in {"none", reading}
    /\ cors' = [cors EXCEPT
           !.instances = Append(@,
               [f EXCEPT !.AllowHeaders = IF @ = {} THEN allowHeadersDefault ELSE @]
                   @@ [AllowMethods |-> allowMethodsDefault,
                       ExposeHeaders |-> {"Etag", "Link"},
                       own |-> f.AllowOrigin]),
           !.allowOriginRegexp = @ \o f.AllowOrigin,
           !.reading = reading,
           !.served = <<>>]
    /\ UNCHANGED notCorsVars

\* a request through the closure of the filter made i-th
CORSServe(i, req) ==
    /\ cors' = [cors EXCEPT !.served =
           <<[instance |-> i, req |-> req,
              answer |-> CORSClosure(cors.instances[i], cors.allowOriginRegexp,
                                     cors.reading, req)]>>]
    /\ UNCHANGED notCorsVars

CORSInit == cors = NoCORS

CORSNext ==
    \/ \E f \in CORSFilters, reading \in DiffReadings : CORSRun(f, reading)
    \/ \E i \in 1..Len(cors.instances), req \in CORSRequests : CORSServe(i, req)

-----------------------------------------------------------------------------
(* The security filter *)

securityXFrameDefault == "SAMEORIGIN"
securityHSTSDefault == "max-age=31536000; includeSubDomains"
securityCacheDefault == "no-store, must-revalidate"

\* the security.Filter values given to Run
SecurityFilters ==
    [UACheckDisable : BOOLEAN, XCTODisable : BOOLEAN, XFrameDisable : BOOLEAN,
     HSTSDisable : BOOLEAN, CacheDisable : BOOLEAN, PragmaDisable : BOOLEAN,
     CacheOptions : {"", "public, max-age=60"}]

\* &Filter{}
DefaultSecurityFilter ==
    [UACheckDisable |-> FALSE, XCTODisable |-> FALSE, XFrameDisable |-> FALSE,
     HSTSDisable |-> FALSE, CacheDisable |-> FALSE, PragmaDisable |-> FALSE,
     CacheOptions |-> ""]

UserAgents == {"", "Go 1.1 package http", "test-suite"}

SecurityRequests == [ua : UserAgents, ssl : BOOLEAN]

SecurityHeaders == {"X-Content-Type-Options", "X-Frame-Options", "Strict-Transport-Security",
                    "Cache-Control", "Pragma"}

NoSecurityHeaders == [h \in SecurityHeaders |-> ""]

\* the closure that Run returns, for a request whose next handler answers 200
SecurityClosure(f, req) ==
    IF ~f.UACheckDisable /\ req.ua \in {"", "Go 1.1 package http"}
    THEN [status |-> StatusForbidden, next |-> FALSE, header |-> NoSecurityHeaders]
    ELSE [status |-> StatusOK, next |-> TRUE,
          header |->
            [h \in SecurityHeaders |->
                CASE h = "X-Content-Type-Options" -> IF ~f.XCTODisable THEN "nosniff" ELSE ""
                  [] h = "X-Frame-Options" -> IF ~f.XFrameDisable THEN f.XFrameOptions ELSE ""
                  [] h = "Strict-Transport-Security" ->
                         IF ~f.HSTSDisable /\ req.ssl THEN f.HSTSOptions ELSE ""
                  [] h = "Cache-Control" -> IF ~f.CacheDisable THEN f.CacheOptions ELSE ""
                  [] h = "Pragma" ->
                         IF ~f.CacheDisable /\ ~f.PragmaDisable THEN "no-cache" ELSE ""]]

NoSecurity == [made |-> FALSE, given |-> DefaultSecurityFilter, filter |-> <<>>, served |-> <<>>]

\* Filter.Run, up to the closure: the defaults of the options left empty
SecurityRun(f) ==
    /\ security' = [made |-> TRUE, given |-> f,
                    filter |-> [f EXCEPT !.CacheOptions =
                                            IF @ = "" THEN securityCacheDefault ELSE @]
                                  @@ [XFrameOptions |-> securityXFrameDefault,
                                      HSTSOptions |-> securityHSTSDefault],
                    served |-> <<>>]
    /\ UNCHANGED notSecurityVars

\* a request through the closure
SecurityServe(req) ==
    /\ security.made
    /\ security' = [security EXCEPT !.served =
           <<[req |-> req, answer |-> SecurityClosure(security.filter, req)]>>]
    /\ UNCHANGED notSecurityVars

SecurityInit == security = NoSecurity

SecurityNext ==
    \/ \E f \in SecurityFilters : SecurityRun(f)
    \/ \E req \in SecurityRequests : SecurityServe(req)

-----------------------------------------------------------------------------
(* The method-override filter.  A request carries its method, the value of  *)
(* the override header and the value of the override query variable.        *)

MaxInvocations == 2

\* the default of Filter.Methods: Methods[override] is the method that
\* may carry the override
DefaultOverrideMethods ==
    [m \in {"DELETE", "OPTIONS", "PATCH", "PUT"} |-> IF m = "OPTIONS" THEN "GET" ELSE "POST"]

\* a Methods map in which two carriers carry each other
SwapOverrideMethods == [m \in {"POST", "DELETE"} |-> IF m = "POST" THEN "DELETE" ELSE "POST"]

\* the Methods given to Run; the empty map stands for nil
OverrideFilters == {<<>>, DefaultOverrideMethods, SwapOverrideMethods}

OverrideRequests ==
    [Method : {"GET", "POST", "DELETE"},
     header : {"", "DELETE", "OPTIONS", "POST", "TRACE"},
     query : {"", "DELETE", "PATCH", "TRACE"}]

NoOverrideRequest == [Method |-> "", header |-> "", query |-> ""]

OverrideAnswer(status, called, req, published) ==
    [status |-> status, next |-> called, after |-> req, published |-> published]

\* the closure without the test that the request method is the carrier
OverrideClosure_NoCarrierCheck(carriers, req) ==
    LET queried == IF req.query # "" THEN [req EXCEPT !.header = req.query] ELSE req
        o == queried.header
    IN  IF o # "" /\ o # queried.Method
        THEN IF o \notin DOMAIN carriers
             THEN OverrideAnswer(StatusBadRequest, FALSE, queried, "")
             ELSE OverrideAnswer(StatusOK, TRUE, [queried EXCEPT !.Method = o, !.header = ""], o)
        ELSE OverrideAnswer(StatusOK, TRUE, queried, "")

\* the closure without the test that the override differs from the method
OverrideClosure_NoSameCheck(carriers, req) ==
    LET queried == IF req.query # "" THEN [req EXCEPT !.header = req.query] ELSE req
        o == queried.header
    IN  IF o # ""
        THEN IF o \notin DOMAIN carriers
             THEN OverrideAnswer(StatusBadRequest, FALSE, queried, "")
             ELSE IF queried.Method # carriers[o]
                  THEN OverrideAnswer(StatusPreconditionFailed, FALSE, queried, "")
                  ELSE OverrideAnswer(StatusOK, TRUE,
                                      [queried EXCEPT !.Method = o, !.header = ""], o)
        ELSE OverrideAnswer(StatusOK, TRUE, queried, "")

\* the closure that Run returns, for a request whose next handler answers
\* 200: the query variable is copied to the header first
OverrideClosure(carriers, req) ==
    LET queried == IF req.query # "" THEN [req EXCEPT !.header = req.query] ELSE req
        o == queried.header
    IN  IF o # "" /\ o # queried.Method
        THEN IF o \notin DOMAIN carriers
             THEN OverrideAnswer(StatusBadRequest, FALSE, queried, "")
             ELSE IF queried.Method # carriers[o]
                  THEN OverrideAnswer(StatusPreconditionFailed, FALSE, queried, "")
                  ELSE OverrideAnswer(StatusOK, TRUE,
                                      [queried EXCEPT !.Method = o, !.header = ""], o)
        ELSE OverrideAnswer(StatusOK, TRUE, queried, "")

NoOverride ==
    [made |-> FALSE, Methods |-> <<>>, req |-> NoOverrideRequest, info |-> "", calls |-> <<>>]

\* Filter.Run, up to the closure: the default of Methods
OverrideRun(carriers) ==
    /\ override' = [NoOverride EXCEPT
           !.made = TRUE,
           !.Methods = IF carriers = <<>> THEN DefaultOverrideMethods ELSE carriers]
    /\ UNCHANGED notOverrideVars

\* a request reaches the chain
OverrideRequest(req) ==
    /\ override.made
    /\ override' = [override EXCEPT !.req = req, !.info = "", !.calls = <<>>]
    /\ UNCHANGED notOverrideVars

\* the closure is invoked on the request; the filter may be in the chain
\* again behind itself, and is then invoked by the next of the first
OverrideServe ==
    /\ override.req # NoOverrideRequest
    /\ Len(override.calls) < MaxInvocations
    /\ override.calls # <<>> => override.calls[Len(override.calls)].next
    /\ LET a == OverrideClosure(override.Methods, override.req)
       IN  override' = [override EXCEPT
               !.req = a.after,
               !.info = IF a.published # "" THEN a.published ELSE @,
               !.calls = Append(@, [before |-> override.req] @@ a)]
    /\ UNCHANGED notOverrideVars

OverrideInit == override = NoOverride

OverrideNext ==
    \/ \E carriers \in OverrideFilters : OverrideRun(carriers)
    \/ \E req \in OverrideRequests : OverrideRequest(req)
    \/ OverrideServe

-----------------------------------------------------------------------------
(* Service.Content.  A header value with a media type is the media type as  *)
(* written and its parameters; mime.ParseMediaType fails on no media type   *)
(* and on malformed parameters, and lowers the case of the media type.      *)

StatusNotAcceptable == 406
StatusUnsupportedMediaType == 415

ContentMediaType == "application/vnd.relax"
ContentDefaultVersion == "current"
ContentDefaultLanguage == "en-US"

mJSON == "application/json"
mXML == "application/xml"

Media(media, params) == [media |-> media, params |-> params]

NoMedia == Media("", "none")
AnyMedia == Media("*/*", "none")

\* the vendor media types, with the subtype after the "+"
VendorSubtypes ==
    [m \in {"application/vnd.relax", "application/vnd.relax+json", "application/vnd.relax+xml",
            "application/vnd.relax+yaml"} |->
        CASE m = "application/vnd.relax" -> ""
          [] m = "application/vnd.relax+json" -> "json"
          [] m = "application/vnd.relax+xml" -> "xml"
          [] m = "application/vnd.relax+yaml" -> "yaml"]

\* strings.HasPrefix(accept, ContentMediaType)
HasVendorPrefix(v) == v.media \in DOMAIN VendorSubtypes

\* ContentMediaType + "+" + ext[1:]
VendorOf(ext) ==
    CASE ext = ".json" -> Media("application/vnd.relax+json", "none")
      [] ext = ".xml" -> Media("application/vnd.relax+xml", "none")
      [] ext = ".yaml" -> Media("application/vnd.relax+yaml", "none")

\* mime.TypeByExtension, with the types that init adds
TypeByExtension(sub) ==
    CASE sub = "json" -> mJSON
      [] sub = "xml" -> mXML
      [] OTHER -> ""

ToLower(m) == IF m = "APPLICATION/JSON" THEN mJSON ELSE m

\* mime.ParseMediaType: the media type, the parameters, the error
ParseMediaType(v) ==
    IF v.media = "" \/ v.params = "bad"
    THEN [ct |-> "", version |-> "", lang |-> "", err |-> TRUE]
    ELSE [ct |-> ToLower(v.media),
          version |-> IF v.params = "version=2" THEN "2" ELSE "",
          lang |-> IF v.params = "lang=fr" THEN "fr" ELSE "",
          err |-> FALSE]

AcceptValues ==
    {NoMedia, AnyMedia, Media(mJSON, "none"), Media("application/vnd.relax", "lang=fr"),
     Media("application/vnd.relax+json", "version=2"), Media("application/vnd.relax+xml", "none"),
     Media("application/vnd.relax+yaml", "none"), Media("application/vnd.relax+json", "bad")}

ContentTypeValues ==
    {NoMedia, Media(mJSON, "none"), Media(mJSON, "charset=utf-8"), Media("APPLICATION/JSON", "none"),
     Media(mXML, "none"), Media("text/plain", "none"), Media(mJSON, "bad")}

PathExts == {"", ".json", ".xml", ".yaml"}

\* the requests; the extension of the path is read with Accept: */* only
ContentRequests ==
    [Method : {"GET", "POST", "PUT", "PATCH"}, accept : AcceptValues, ext : {""},
     contentType : ContentTypeValues, acceptLanguage : {"", "da"}]
    \cup [Method : {"GET", "POST", "PUT", "PATCH"}, accept : {AnyMedia}, ext : PathExts \ {""},
          contentType : ContentTypeValues, acceptLanguage : {""}]

\* what the closure leaves: the status, whether next ran, the Content-Type
\* of the response, the codecs bound to the context, the Info, the path
ContentAnswer(status, called, enc, dec, info, ext) ==
    [status |-> status, next |-> called, contentType |-> enc, Encode |-> enc, Decode |-> dec,
     info |-> info, ext |-> ext]

NoContentInfo == [encoding |-> "", version |-> "", language |-> "", decoding |-> ""]

\* the language: the default or the lang of Accept, unless Accept-Language
\* names a language with no quality, which is preferred to it
LanguageOf(lang, acceptLanguage) == IF acceptLanguage # "" THEN acceptLanguage ELSE lang

\* the payload step without the test that an encoder is registered
ContentPayload_AnyDecoder(encoders, req, enc, info, ext) ==
    IF req.Method \in {"POST", "PUT", "PATCH"}
    THEN LET p == ParseMediaType(req.contentType)
         IN  IF p.err
             THEN ContentAnswer(StatusBadRequest, FALSE, enc, mJSON, info, ext)
             ELSE ContentAnswer(StatusOK, TRUE, enc, p.ct, [info EXCEPT !.decoding = p.ct], ext)
    ELSE ContentAnswer(StatusOK, TRUE, enc, mJSON, info, ext)

\* the payload step of the closure, for the encoder enc chosen for the response
ContentPayload(encoders, req, enc, info, ext) ==
    IF req.Method \in {"POST", "PUT", "PATCH"}
    THEN LET p == ParseMediaType(req.contentType)
         IN  IF p.err
             THEN ContentAnswer(StatusBadRequest, FALSE, enc, mJSON, info, ext)
             ELSE IF p.ct \notin encoders
             THEN ContentAnswer(StatusUnsupportedMediaType, FALSE, enc, mJSON, info, ext)
             ELSE ContentAnswer(StatusOK, TRUE, enc, p.ct, [info EXCEPT !.decoding = p.ct], ext)
    ELSE ContentAnswer(StatusOK, TRUE, enc, mJSON, info, ext)

\* the closure that Content returns, for a request whose next handler
\* answers 200
ContentClosure(encoders, req) ==
    LET viaPath == req.accept = AnyMedia /\ req.ext # ""
        accept == IF viaPath THEN VendorOf(req.ext) ELSE req.accept
        ext == IF viaPath THEN "" ELSE req.ext
        p == ParseMediaType(accept)
        sub == IF p.ct \in DOMAIN VendorSubtypes THEN VendorSubtypes[p.ct] ELSE ""
        tbe == TypeByExtension(sub)
    IN  IF HasVendorPrefix(accept) /\ p.err
        THEN ContentAnswer(StatusBadRequest, FALSE, mJSON, mJSON, NoContentInfo, ext)
        ELSE IF HasVendorPrefix(accept) /\ sub # "" /\ tbe \notin encoders
        THEN ContentAnswer(StatusNotAcceptable, FALSE, mJSON, mJSON, NoContentInfo, ext)
        ELSE LET enc == IF HasVendorPrefix(accept) /\ sub # "" THEN tbe ELSE mJSON
                 version == IF HasVendorPrefix(accept) /\ p.version # ""
                            THEN p.version ELSE ContentDefaultVersion
                 lang == IF HasVendorPrefix(accept) /\ p.lang # ""
                         THEN p.lang ELSE ContentDefaultLanguage
                 info == [encoding |-> enc, version |-> version,
                          language |-> LanguageOf(lang, req.acceptLanguage), decoding |-> ""]
             IN  ContentPayload(encoders, req, enc, info, ext)

NoContent == [encoders |-> {mJSON}, served |-> <<>>]

\* svc.Use(xmlenc.NewEncoderXML())
ContentUse(m) ==
    /\ m \notin content.encoders
    /\ content' = [content EXCEPT !.encoders = @ \cup {m}, !.served = <<>>]
    /\ UNCHANGED notContentVars

\* a request through the closure
ContentServe(req) ==
    /\ content' = [content EXCEPT !.served =
           <<[req |-> req, answer |-> ContentClosure(content.encoders, req)]>>]
    /\ UNCHANGED notContentVars

ContentInit == content = NoContent

ContentNext ==
    \/ ContentUse(mXML)
    \/ \E req \in ContentRequests : ContentServe(req)

-----------------------------------------------------------------------------
(* NewRequestID.  An id is a tuple of one-character strings.                *)

MaxIds == 3

\* the characters the switch of NewRequestID lets pass
RequestIDMarks == {"-", "_", ".", "~", "%", "+"}

\* n characters, taken in turn from chars
Repeat(chars, n) == [i \in 1..n |-> chars[((i - 1) % Len(chars)) + 1]]

IdText == <<"a", "Z", "7", "-", "q", "_", "B", ".", "0", "~", "x", "%", "M", "+">>

IdLengths == {1, 19, 20, 21, 22, 199, 200, 201, 202}

\* the ids given: well-formed text, and text with one other character at
\* its start or at its end
GivenIds ==
    {<<>>}
    \cup {Repeat(IdText, n) : n \in IdLengths}
    \cup {[Repeat(IdText, n) EXCEPT ![1] = c] : n \in IdLengths, c \in {" ", "/"}}
    \cup {[Repeat(IdText, n) EXCEPT ![n] = c] : n \in IdLengths, c \in {" ", "/"}}

\* the loop "for i, c := range id": a character that is no letter, digit or
\* mark makes the switch return a new id (-1 here), at whatever index it
\* stands; "case i > 199" comes after the cases of the characters that
\* pass, so it is never tried for them.  Otherwise l ends as the last index.
ScanID(id) ==
    IF \E k \in 1..Len(id) : id[k] \notin Letter \cup Digit \cup RequestIDMarks
    THEN -1
    ELSE Len(id) - 1

\* NewRequestID(id), generated being the UUID it would make
NewRequestID(id, generated) ==
    IF id = <<>> THEN generated
    ELSE LET l == ScanID(id)
         IN  IF l = -1 \/ l < 20 THEN generated ELSE id

NoRequestID == [calls |-> 0, given |-> <<>>, returned |-> <<>>]

\* a call of NewRequestID; the n-th UUID generated is <<"uuid", n>>
RequestIDCalled(id) ==
    /\ requestId.calls < MaxIds
    /\ requestId' = [calls |-> requestId.calls + 1, given |-> id,
                     returned |-> NewRequestID(id, <<"uuid", requestId.calls + 1>>)]
    /\ UNCHANGED notRequestIdVars

RequestIDInit == requestId = NoRequestID

RequestIDNext == \E id \in GivenIds : RequestIDCalled(id)

-----------------------------------------------------------------------------
(* The pools of Contexts and ResponseBuffers: context.go, response_buffer.go
   and the two filters that buffer the response, etag.go and gzip.go.

   net/http serves each connection in a goroutine of its own, so two
   requests run the closure of Adapter and the filters at once.  A Context
   or ResponseBuffer is a pointer, here its index in pool.contexts or
   pool.buffers; a sync.Pool holds pointers and Put does not look whether
   the pointer is already in it, so pool.ctxPool and pool.rbPool count how
   many times each one is in its pool.  What belongs to the n-th request
   (its *http.Request, its value carrier, its path values, the encoder
   bound for it, the bytes its handler wrote) carries the number n; 0 and
   <<>> are nil. *)

MaxServed == 3

PoolGoroutines == {"g1", "g2"}

\* the buffering filter of the request and the way its Run ends
PoolPlans ==
    {<<"none", "direct">>, <<"none", "panic">>,
     <<"etag", "flush">>, <<"etag", "notModified">>,
     <<"etag", "preconditionFailed">>, <<"etag", "panic">>,
     <<"gzip", "flush">>, <<"gzip", "notModified">>, <<"gzip", "compressed">>,
     <<"gzip", "compressorError">>, <<"gzip", "panic">>}

\* new(Context) and new(ResponseBuffer), the New of the two pools
ZeroContext ==
    [Context |-> 0, ResponseWriter |-> <<>>, wroteHeader |-> FALSE,
     status |-> 0, bytes |-> 0, Request |-> 0, PathValues |-> 0,
     Encode |-> 0, Decode |-> 0]

ZeroBuffer == [data |-> 0, wroteHeader |-> FALSE, status |-> 0, header |-> 0]

NoPoolProc ==
    [pc |-> "idle", n |-> 0, filter |-> "none", path |-> "direct",
     ctx |-> 0, clone |-> 0, rb |-> 0,
     ctxPuts |-> 0, clonePuts |-> 0, rbPuts |-> 0, late |-> FALSE,
     got |-> <<>>]

NoPool ==
    [contexts |-> <<>>, ctxPool |-> <<>>, buffers |-> <<>>, rbPool |-> <<>>,
     served |-> 0, procs |-> [g \in PoolGoroutines |-> NoPoolProc]]

\* sync.Pool.Get: any pointer that is in the pool, or what New makes
PoolChoices(counts) ==
    {p \in 1..Len(counts) : counts[p] > 0} \cup {Len(counts) + 1}

GetContext(pl, p) ==
    IF p > Len(pl.contexts)
    THEN [pl EXCEPT !.contexts = Append(@, ZeroContext), !.ctxPool = Append(@, 0)]
    ELSE [pl EXCEPT !.ctxPool[p] = @ - 1]

GetBuffer(pl, p) ==
    IF p > Len(pl.buffers)
    THEN [pl EXCEPT !.buffers = Append(@, ZeroBuffer), !.rbPool = Append(@, 0)]
    ELSE [pl EXCEPT !.rbPool[p] = @ - 1]

\* newContext(parent, w, r) by goroutine g for the request n, on the pointer p
PoolNewContext(pl, g, n, p) ==
    LET got == GetContext(pl, p)
    IN  [got EXCEPT !.contexts[p].Context = n,
                    !.contexts[p].ResponseWriter = <<"client", n>>,
                    !.contexts[p].Request = n,
                    !.procs[g].ctx = p]

\* ctx.free()
PoolContextFree(pl, g) ==
    LET p == pl.procs[g].ctx
    IN  [pl EXCEPT !.contexts[p].ResponseWriter = <<>>,
                   !.contexts[p].wroteHeader = FALSE,
                   !.contexts[p].status = 0,
                   !.contexts[p].bytes = 0,
                   !.contexts[p].PathValues = 0,
                   !.contexts[p].Decode = 0,
                   !.contexts[p].Encode = 0,
                   !.ctxPool[p] = @ + 1,
                   !.procs[g].ctxPuts = @ + 1]

\* NewResponseBuffer(ctx) on the pointer p
PoolNewResponseBuffer(pl, g, p) ==
    LET got == GetBuffer(pl, p)
    IN  [got EXCEPT !.buffers[p].header = pl.procs[g].n, !.procs[g].rb = p]

\* ctx.Clone(rb) on the pointer p
PoolClone(pl, g, p) ==
    LET got == GetContext(pl, p)
        c   == pl.contexts[pl.procs[g].ctx]
    IN  [got EXCEPT !.contexts[p].Context = c.Context,
                    !.contexts[p].Request = c.Request,
                    !.contexts[p].PathValues = c.PathValues,
                    !.contexts[p].bytes = c.bytes,
                    !.contexts[p].Decode = c.Decode,
                    !.contexts[p].Encode = c.Encode,
                    !.contexts[p].ResponseWriter = <<"rb", pl.procs[g].rb>>,
                    !.procs[g].clone = p]

\* rb.Free()
PoolBufferFree(pl, g) ==
    LET p == pl.procs[g].rb
    IN  [pl EXCEPT !.buffers[p] = ZeroBuffer,
                   !.rbPool[p] = @ + 1,
                   !.procs[g].rbPuts = @ + 1]

\* ctx.WriteHeader(code) on the Context of the adapter
PoolWriteHeader(pl, g, code) ==
    LET p == pl.procs[g].ctx
    IN  IF pl.contexts[p].wroteHeader THEN pl
        ELSE [pl EXCEPT !.contexts[p].wroteHeader = TRUE,
                        !.contexts[p].status = code]

\* rb.WriteTo(w): the bytes held by the buffer reach the client of g
PoolWriteTo(pl, g) ==
    LET d == pl.buffers[pl.procs[g].rb].data
    IN  IF d = 0 THEN pl
        ELSE [pl EXCEPT !.procs[g].got = Append(@, d),
                        !.contexts[pl.procs[g].ctx].bytes = @ + 1]

\* rb.Flush(ctx): FlushHeader, WriteTo and the deferred Free
PoolFlush(pl, g) ==
    LET b    == pl.buffers[pl.procs[g].rb]
        head == IF b.wroteHeader THEN PoolWriteHeader(pl, g, b.status) ELSE pl
    IN  PoolBufferFree(PoolWriteTo(head, g), g)

\* the closure of Adapter: newContext and the deferred calls are set
PoolServe(g, plan) ==
    /\ pool.procs[g].pc \in {"idle", "done"}
    /\ pool.served < MaxServed
    /\ \E p \in PoolChoices(pool.ctxPool) :
          LET n     == pool.served + 1
              fresh == [pool EXCEPT !.procs[g] = [NoPoolProc EXCEPT !.pc = "adapter",
                               !.n = n, !.filter = plan[1], !.path = plan[2]],
                           !.served = n]
          IN  pool' = PoolNewContext(fresh, g, n, p)
    /\ UNCHANGED notPoolVars

\* the filters of the service and the router: the content filter binds the
\* encoder and decoder, the route sets the path values
PoolBinds(g) ==
    /\ pool.procs[g].pc = "adapter"
    /\ LET p == pool.procs[g].ctx
           n == pool.procs[g].n
       IN  pool' = [pool EXCEPT !.contexts[p].Encode = n,
                                !.contexts[p].Decode = n,
                                !.contexts[p].PathValues = n,
                                !.procs[g].pc = IF pool.procs[g].filter = "none"
                                                THEN "handler" ELSE "bound"]
    /\ UNCHANGED notPoolVars

\* Run of the etag or the gzip filter up to its call of next:
\* rb := NewResponseBuffer(ctx); next(ctx.Clone(rb))
PoolFilterCalled(g) ==
    /\ pool.procs[g].pc = "bound"
    /\ \E p \in PoolChoices(pool.rbPool) :
          LET withRb == PoolNewResponseBuffer(pool, g, p)
          IN  \E q \in PoolChoices(withRb.ctxPool) :
                 pool' = [PoolClone(withRb, g, q) EXCEPT !.procs[g].pc = "handler"]
    /\ UNCHANGED notPoolVars

\* the handler writes its answer on the writer of the Context it was given,
\* or panics
PoolHandlerRuns(g) ==
    /\ pool.procs[g].pc = "handler"
    /\ LET me == pool.procs[g]
       IN  pool' =
             IF me.path = "panic"
             THEN [pool EXCEPT !.procs[g].pc = "unwinding"]
             ELSE IF me.filter = "none"
             THEN [PoolWriteHeader(pool, g, StatusOK) EXCEPT
                       !.contexts[me.ctx].bytes = @ + 1,
                       !.procs[g].got = Append(@, me.n),
                       !.procs[g].pc = "unwinding"]
             ELSE [pool EXCEPT !.contexts[me.clone].wroteHeader = TRUE,
                               !.contexts[me.clone].status = StatusOK,
                               !.contexts[me.clone].bytes = @ + 1,
                               !.buffers[me.rb].wroteHeader = TRUE,
                               !.buffers[me.rb].status = StatusOK,
                               !.buffers[me.rb].data = me.n,
                               !.procs[g].pc = "after"]
    /\ UNCHANGED notPoolVars

\* Run after next has returned, as far as its first release of the buffer:
\* the deferred rb.Flush(ctx) on the ways that only return, and an rb.Free()
\* of their own on the 412 of etag and on the compressed output of gzip
PoolFilterAfter(g) ==
    /\ pool.procs[g].pc = "after"
    /\ LET me == pool.procs[g]
       IN  pool' =
             CASE me.path \in {"flush", "compressorError"} ->
                    [PoolFlush(pool, g) EXCEPT !.procs[g].pc = "unwinding"]
               [] me.path = "notModified" /\ me.filter = "etag" ->
                    \* rb.WriteHeader(304); rb.Reset(); return
                    [PoolFlush([pool EXCEPT !.buffers[me.rb].data = 0], g)
                        EXCEPT !.procs[g].pc = "unwinding"]
               [] me.path = "notModified" /\ me.filter = "gzip" ->
                    \* ctx.WriteHeader(304); break
                    [PoolFlush(PoolWriteHeader(pool, g, StatusNotModified), g)
                        EXCEPT !.procs[g].pc = "unwinding"]
               [] me.path = "preconditionFailed" ->
                    \* ctx.WriteHeader(412); rb.Free(); return
                    [PoolBufferFree(PoolWriteHeader(pool, g, StatusPreconditionFailed), g)
                        EXCEPT !.procs[g].pc = "deferred"]
               [] me.path = "compressed" ->
                    \* rb.FlushHeader(ctx.ResponseWriter); rb.WriteTo(gz); rb.Free()
                    [PoolBufferFree(PoolWriteTo(pool, g), g)
                        EXCEPT !.procs[g].pc = "deferred"]
    /\ UNCHANGED notPoolVars

\* the deferred rb.Flush(ctx) of a Run that has released the buffer itself
PoolDeferredFlush(g) ==
    /\ pool.procs[g].pc = "deferred"
    /\ pool' = [PoolFlush(pool, g) EXCEPT !.procs[g].pc = "unwinding",
                                          !.procs[g].late = TRUE]
    /\ UNCHANGED notPoolVars

\* the deferred calls of the closure of Adapter: ctx.free(), then the recover
\* whose Recovery answers a panic
PoolAdapterReturns(g) ==
    /\ pool.procs[g].pc = "unwinding"
    /\ pool' = [PoolContextFree(pool, g) EXCEPT !.procs[g].pc = "done",
                   !.procs[g].got = IF pool.procs[g].path = "panic"
                                    THEN Append(@, -1) ELSE @]
    /\ UNCHANGED notPoolVars

PoolInit == pool = NoPool

PoolNext ==
    \/ \E g \in PoolGoroutines, plan \in PoolPlans : PoolServe(g, plan)
    \/ \E g \in PoolGoroutines : PoolBinds(g)
    \/ \E g \in PoolGoroutines : PoolFilterCalled(g)
    \/ \E g \in PoolGoroutines : PoolHandlerRuns(g)
    \/ \E g \in PoolGoroutines : PoolFilterAfter(g)
    \/ \E g \in PoolGoroutines : PoolDeferredFlush(g)
    \/ \E g \in PoolGoroutines : PoolAdapterReturns(g)

-----------------------------------------------------------------------------
(* A chain of the filters that may refuse a request: basic authentication,
   method override, Throttle, Usage, CORS and security, in any order, and
   under them dispatch and the resource handler.  Each closure either
   answers the request itself and returns, or calls next once. *)

MaxChain == 3

StatusUnauthorized == 401

FilterKinds == {"auth", "override", "throttle", "usage", "cors", "security"}

\* the chains: up to MaxChain filters, each kind at most once
RECURSIVE ChainsOf(_)
ChainsOf(n) ==
    IF n = 0 THEN {<<>>}
    ELSE LET shorter == ChainsOf(n - 1)
         IN  shorter \cup {Append(c, k) : c \in shorter, k \in FilterKinds}

FilterChains ==
    {c \in ChainsOf(MaxChain) : \A i, j \in 1..Len(c) : i # j => c[i] # c[j]}

\* the Authorization header: the number of words that strings.Split(header,
\* " ") gives, the first of them, whether the second is base64, and what it
\* decodes to, split at ":"
NoAuthorization == [words |-> 0, scheme |-> "", base64 |-> FALSE, userpass |-> <<>>]

AuthHeaders ==
    {NoAuthorization,
     [words |-> 1, scheme |-> "Basic", base64 |-> FALSE, userpass |-> <<>>],
     [words |-> 2, scheme |-> "Bearer", base64 |-> TRUE, userpass |-> <<"token">>],
     [words |-> 2, scheme |-> "Basic", base64 |-> FALSE, userpass |-> <<>>],
     [words |-> 2, scheme |-> "Basic", base64 |-> TRUE, userpass |-> <<"admin">>],
     [words |-> 2, scheme |-> "Basic", base64 |-> TRUE, userpass |-> <<"admin", "secret">>],
     [words |-> 2, scheme |-> "Basic", base64 |-> TRUE, userpass |-> <<"admin", "guess">>]}

\* Filter.Authenticate: the pairs it accepts; denyAllAccess accepts none
Authenticators == {{}, {<<"admin", "secret">>}}

\* getUserPass: is an error returned
getUserPassFails(header) ==
    \/ header.words # 2 \/ header.scheme # "Basic"
    \/ ~header.base64
    \/ Len(header.userpass) # 2

ShortAnswer(status, called) == [status |-> status, next |-> called]

\* the closure of the basic authentication filter that calls next also
\* after the challenge
AuthClosure_NextAfterChallenge(authenticate, header) ==
    IF header = NoAuthorization THEN ShortAnswer(StatusUnauthorized, FALSE)
    ELSE IF getUserPassFails(header) THEN ShortAnswer(StatusBadRequest, FALSE)
    ELSE IF header.userpass \notin authenticate THEN ShortAnswer(StatusUnauthorized, TRUE)
    ELSE ShortAnswer(StatusOK, TRUE)

\* the closure that Run of the basic authentication filter returns
AuthClosure(authenticate, header) ==
    IF header = NoAuthorization THEN ShortAnswer(StatusUnauthorized, FALSE)
    ELSE IF getUserPassFails(header) THEN ShortAnswer(StatusBadRequest, FALSE)
    ELSE IF header.userpass \notin authenticate THEN ShortAnswer(StatusUnauthorized, FALSE)
    ELSE ShortAnswer(StatusOK, TRUE)

\* the closure that Throttle.Run returns: select on the limiter
ThrottleClosure(received) ==
    IF received THEN ShortAnswer(StatusOK, TRUE)
    ELSE ShortAnswer(StatusTooManyRequests, FALSE)

\* FilterCORS.Run up to the closure, for a filter used alone
CORSAlone(f) ==
    [f EXCEPT !.AllowHeaders = IF @ = {} THEN allowHeadersDefault ELSE @]
        @@ [AllowMethods |-> allowMethodsDefault, ExposeHeaders |-> {"Etag", "Link"},
            own |-> f.AllowOrigin]

\* Run of the security filter up to the closure
SecurityAlone(f) ==
    [f EXCEPT !.CacheOptions = IF @ = "" THEN securityCacheDefault ELSE @]
        @@ [XFrameOptions |-> securityXFrameDefault, HSTSOptions |-> securityHSTSDefault]

\* what the closure of a filter of the kind can do with a request: the
\* status it answers, or 200 for none, and whether it calls next
AnswersOf(kind) ==
    CASE kind = "auth" ->
            {AuthClosure(a, h) : a \in Authenticators, h \in AuthHeaders}
      [] kind = "override" ->
            {LET a == OverrideClosure(DefaultOverrideMethods, r)
             IN  ShortAnswer(a.status, a.next) : r \in OverrideRequests}
      [] kind = "throttle" ->
            {ThrottleClosure(received) : received \in BOOLEAN}
      [] kind = "usage" ->
            {LET a == UsageResponse(0, wait(1, Ration), ok)
             IN  ShortAnswer(a.status, a.next) : ok \in BOOLEAN}
      [] kind = "cors" ->
            {LET a == CORSClosure(CORSAlone(f), f.AllowOrigin, reading, r)
             IN  ShortAnswer(a.status, a.next) :
                   f \in CORSFilters, r \in CORSRequests, reading \in DiffReadings}
      [] kind = "security" ->
            {LET a == SecurityClosure(SecurityAlone(f), r)
             IN  ShortAnswer(a.status, a.next) :
                   f \in {DefaultSecurityFilter, [DefaultSecurityFilter EXCEPT !.UACheckDisable = TRUE]},
                   r \in SecurityRequests}

NoShortReq == [pc |-> "idle", chain |-> <<>>, pos |-> 0, trace |-> <<>>, calls |-> 0]

\* the closure of Adapter calls the outermost handler of the chain
ShortServe(kinds) ==
    /\ shortReq.pc \in {"idle", "done"}
    /\ shortReq' = [NoShortReq EXCEPT !.pc = "down", !.chain = kinds, !.pos = 1]
    /\ UNCHANGED notShortVars

\* the closure of the filter at pos runs: it answers and returns, or calls next
ShortFilterRuns ==
    /\ shortReq.pc = "down"
    /\ shortReq.pos <= Len(shortReq.chain)
    /\ LET kind == shortReq.chain[shortReq.pos]
       IN  \E a \in AnswersOf(kind) :
              shortReq' = [shortReq EXCEPT
                  !.trace = Append(@, [kind |-> kind, status |-> a.status, next |-> a.next]),
                  !.pos = IF a.next THEN @ + 1 ELSE @,
                  !.pc = IF a.next THEN "down" ELSE "up"]
    /\ UNCHANGED notShortVars

\* Service.dispatch: the handler that FindHandler gives is called, or the
\* error of the router is answered
ShortDispatch(found) ==
    /\ shortReq.pc = "down"
    /\ shortReq.pos > Len(shortReq.chain)
    /\ shortReq' = [shortReq EXCEPT
           !.trace = Append(@, [kind |-> "dispatch",
                                status |-> IF found THEN StatusOK ELSE StatusNotFound,
                                next |-> found]),
           !.calls = IF found THEN @ + 1 ELSE @,
           !.pc = "up"]
    /\ UNCHANGED notShortVars

\* the closures return, the closure of Adapter last
ShortReturns ==
    /\ shortReq.pc = "up"
    /\ shortReq' = [shortReq EXCEPT !.pc = "done", !.pos = 0]
    /\ UNCHANGED notShortVars

ShortInit == shortReq = NoShortReq

ShortNext ==
    \/ \E kinds \in FilterChains : ShortServe(kinds)
    \/ ShortFilterRuns
    \/ \E found \in BOOLEAN : ShortDispatch(found)
    \/ ShortReturns

-----------------------------------------------------------------------------
(* The specifications: the router, the calls on a Context and on a buffer, *)
(* and the filter chain of a service                                       *)

Init == RouterInit /\ ContextInit /\ ChainInit /\ ResourceInit /\ PipeInit /\ AdapterInit
        /\ BucketInit /\ ThrottleInit /\ CORSInit
        /\ SecurityInit /\ OverrideInit /\ ContentInit
        /\ RequestIDInit
        /\ PoolInit
        /\ ShortInit

SpecRouter == Init /\ [][RouterNext]_vars

SpecContext == Init /\ [][ContextNext]_vars

SpecChain == Init /\ [][ChainNext]_vars

SpecResource == Init /\ [][ResourceNext]_vars

SpecPipeline == Init /\ [][PipeNext]_vars

SpecAdapter == Init /\ [][AdapterNext]_vars

SpecBucket == Init /\ [][BucketNext]_vars

SpecThrottle == Init /\ [][ThrottleNext]_vars

SpecCORS == Init /\ [][CORSNext]_vars

SpecSecurity == Init /\ [][SecurityNext]_vars

SpecOverride == Init /\ [][OverrideNext]_vars

SpecContent == Init /\ [][ContentNext]_vars

SpecRequestID == Init /\ [][RequestIDNext]_vars

SpecPool == Init /\ [][PoolNext]_vars

SpecShortCircuit == Init /\ [][ShortNext]_vars

-----------------------------------------------------------------------------
(* The claims about Context and ResponseBuffer *)

\* C7: of the WriteHeader calls on a Context or on a ResponseBuffer only the
\* first records its status code, and only the first call on a Context
\* reaches the response writer: every later call changes nothing.
C7_WriteHeaderOnce ==
    /\ Len(w.codes) <= 1
    /\ IF hist.ctxCodes = <<>>
       THEN ~ctx.wroteHeader /\ w.codes = <<>> /\ ContextStatus(ctx) = StatusOK
       ELSE /\ ctx.wroteHeader
            /\ ContextStatus(ctx) = hist.ctxCodes[1]
            /\ w.codes = <<hist.ctxCodes[1]>>
    /\ IF hist.rbCodes = <<>>
       THEN ~rb.wroteHeader /\ BufferStatus(rb) = StatusOK
       ELSE rb.wroteHeader /\ BufferStatus(rb) = hist.rbCodes[1]

\* WriteHeader was called twice with different codes, on ctx and on rb
C7_Witness ==
    /\ Len(hist.ctxCodes) >= 2 /\ hist.ctxCodes[2] # hist.ctxCodes[1]
    /\ Len(hist.rbCodes) >= 2 /\ hist.rbCodes[2] # hist.rbCodes[1]

C9_BytesCountsBody == ContextBytes(ctx) = Len(w.body)


-----------------------------------------------------------------------------
(* The claim about the filter chain *)

\* the effects of a request in which the stages before the stop-th call
\* next and the stop-th stage (if any) returns without calling next; the
\* stages are content, the filters in the order of Service.filters, dispatch
RECURSIVE PreEffects(_, _, _)
PreEffects(fs, i, last) ==
    IF i > last THEN <<>>
    ELSE <<Event("pre", Stage(fs[i], i))>> \o PreEffects(fs, i + 1, last)

RECURSIVE PostEffects(_, _)
PostEffects(fs, i) ==
    IF i < 1 THEN <<>>
    ELSE <<Event("post", Stage(fs[i], i))>> \o PostEffects(fs, i - 1)

ExpectedEffects(fs, stop) ==
    IF stop = 0
    THEN <<Event("stop", Stage("content", 0))>>
    ELSE <<Event("pre", Stage("content", 0))>>
         \o PreEffects(fs, 1, IF stop > Len(fs) THEN Len(fs) ELSE stop - 1)
         \o (IF stop > Len(fs) THEN <<Event("dispatch", Stage("dispatch", 0))>>
             ELSE <<Event("stop", Stage(fs[stop], stop))>>)
         \o PostEffects(fs, IF stop > Len(fs) THEN Len(fs) ELSE stop - 1)
         \o <<Event("post", Stage("content", 0))>>

IsPrefix(s, t) == Len(s) <= Len(t) /\ SubSeq(t, 1, Len(s)) = s

\* C10: for service filters registered in the order f1..fn, the effects
\* before next run in the order f1..fn, then the dispatcher runs, and the
\* effects after next run in the order fn..f1 (up to the filter that does
\* not call next, if one does not).
C10_FilterOrder ==
    /\ serving.state \in {"call", "return", "done"} =>
           \E stop \in 0..(Len(filters) + 1) :
               /\ IsPrefix(serving.trace, ExpectedEffects(filters, stop))
               /\ serving.state = "done" => serving.trace = ExpectedEffects(filters, stop)
    /\ (serving.state = "done" /\ \A i \in 1..Len(serving.trace) : serving.trace[i].kind # "stop") =>
           serving.trace = ExpectedEffects(filters, Len(filters) + 1)

\* a request went through two different filters or more, and the
\* dispatcher, and back
C10_Witness ==
    /\ serving.state = "done"
    /\ Len(filters) >= 2
    /\ filters[1] # filters[2]
    /\ \E i \in 1..Len(serving.trace) : serving.trace[i].kind = "dispatch"

-----------------------------------------------------------------------------
(* The claims about the filters of resources and routes *)

\* the positions of the trace where a stage of the level was called
PreOf(level) ==
    {i \in 1..Len(resReq.trace) :
        resReq.trace[i][1] = "pre" /\ resReq.trace[i][2].level = level}

\* how many times the filter f was called at the level
CallsOf(f, level) == Cardinality({i \in PreOf(level) : resReq.trace[i][2].name = f})

\* how many times f is in the list fs
TimesIn(f, fs) == Cardinality({i \in 1..Len(fs) : fs[i] = f})

Wrapped(h, f, level) == \E i \in 1..Len(h) : h[i] = LevelStage(f, level)

\* C12: a filter with a scope predicate is wrapped into a chain if and only
\* if RunIn is true for the scope it is attached at: the router for the
\* filters of a route, the resource for the filters of a resource, the
\* service for the filters of the service.
C12_WrappedIffRunIn ==
    /\ \A k \in RouteKeys : routes[k] # NoRoute =>
           /\ \A i \in 1..Len(routes[k].given) :
                  LET f == routes[k].given[i]
                  IN  IsLimitedFilter(f) =>
                          (Wrapped(routes[k].handler, f, "route") <=> RunIn(f, ScopeRouter))
           /\ \A i \in 1..Len(resource.given) :
                  LET f == resource.given[i]
                  IN  IsLimitedFilter(f) =>
                          (Wrapped(routes[k].handler, f, "resource") <=> RunIn(f, ScopeResource))
    /\ \A i \in 1..Len(filters) :
           IsLimitedFilter(filters[i]) =>
               (Wrapped(ServiceStages, filters[i], "service") <=> RunIn(filters[i], ScopeService))

-----------------------------------------------------------------------------
(* The claims about the ETag filter and the gzip filter *)

PipeDone(names) ==
    /\ exchange.pc = "done"
    /\ Len(pipeline.order) = Len(names)
    /\ \A i \in 1..Len(names) : pipeline.order[i].name = names[i]

EtagFilter == pipeline.order[CHOOSE i \in 1..Len(pipeline.order) : pipeline.order[i].name = fEtag]
GzipGiven == pipeline.given[CHOOSE i \in 1..Len(pipeline.given) : pipeline.given[i].name = fGzip]

\* the entity tag of the response the handler made
HandlerTag == EtagOf(exchange.handled, exchange.request.method)

\* the status the handler produced
HandlerStatus == WriterStatus(exchange.handled)

\* If-None-Match matches the tag, or is * while a tag exists
NoneMatchHolds ==
    /\ exchange.request.ifNoneMatch # <<>>
    /\ \/ (exchange.request.ifNoneMatch = <<tStar>> /\ HandlerTag # <<>>)
       \/ (HandlerTag # <<>>
           /\ ContainsStr(exchange.request.ifNoneMatch, TrimQuotes(HandlerTag)))

\* the members of If-Match
IfMatchMembers ==
    LET vs == SplitComma(exchange.request.ifMatch, <<>>)
    IN  {TrimSpace(vs[i]) : i \in 1..Len(vs)}

\* If-Match is * while there is no tag, or no member strongly matches the tag
IfMatchFails ==
    /\ exchange.request.ifMatch # <<>>
    /\ \/ (exchange.request.ifMatch = <<tStar>> /\ HandlerTag = <<>>)
       \/ HandlerTag = <<>>
       \/ HasWeakPrefix(HandlerTag)
       \/ HandlerTag \notin IfMatchMembers

VarySent(v) == \E i \in 1..Len(Client.sent[hVary]) : Client.sent[hVary][i] = v

\* C13: with the ETag filter, a GET or HEAD whose handler produced status
\* 200, implicit or explicit, and whose If-None-Match matches the tag gets
\* 304 with ETag and Vary: If-None-Match and no body; another method gets 412.
C13_NotModifiedOnNoneMatch ==
    (/\ PipeDone(<<fEtag>>)
     /\ ~EtagFilter.disableConditionals
     /\ exchange.request.ifMatch = <<>>
     /\ HandlerStatus = StatusOK
     /\ NoneMatchHolds) =>
        IF isEtagMethod(exchange.request.method)
        THEN /\ Client.status = StatusNotModified
             /\ HeaderGet(Client.sent, hETag) = HandlerTag
             /\ VarySent(<<"If-None-Match">>)
             /\ Client.body = <<>>
        ELSE Client.status = StatusPreconditionFailed

\* C14 as stated: with the ETag filter, a request whose If-Match fails gets
\* 412 and no byte of the handler's body.
C14_PreconditionFailedOnIfMatch ==
    (/\ PipeDone(<<fEtag>>)
     /\ ~EtagFilter.disableConditionals
     /\ IfMatchFails) =>
        /\ Client.status = StatusPreconditionFailed
        /\ Client.body = <<>>

\* C14 amended: the same, for the responses the filter evaluates: the
\* handler's status is 2xx other than 204, or 412, and the method is one of
\* DELETE GET HEAD PATCH POST PUT.
C14_PreconditionFailedWhenEvaluated ==
    (/\ PipeDone(<<fEtag>>)
     /\ ~EtagFilter.disableConditionals
     /\ ~(\/ HandlerStatus < 200
          \/ HandlerStatus = StatusNoContent
          \/ (HandlerStatus > 299 /\ HandlerStatus # StatusPreconditionFailed)
          \/ exchange.request.method \notin {sDELETE, sGET, sHEAD, sPATCH, sPOST, sPUT})
     /\ IfMatchFails) =>
        /\ Client.status = StatusPreconditionFailed
        /\ Client.body = <<>>

\* a request with a failing If-Match was answered 412, the handler's body dropped
C14_Witness ==
    /\ PipeDone(<<fEtag>>)
    /\ ~EtagFilter.disableConditionals
    /\ IfMatchFails
    /\ exchange.handled.body = LongBody
    /\ Client.status = StatusPreconditionFailed
    /\ Client.body = <<>>

\* the writer of the ETag filter's Context when the filter returned
EtagReturned ==
    exchange.returned[CHOOSE i \in 1..Len(exchange.returned) :
                          exchange.returned[i].name = fEtag].wr

\* C15: with the gzip filter around the ETag filter, a 304 or 412 the ETag
\* filter made reaches the client with that status, no body, and the ETag
\* and Vary headers the ETag filter set.
C15_ShortCircuitThroughGzip ==
    (/\ PipeDone(<<fGzip, fEtag>>)
     /\ HandlerStatus \notin {StatusNotModified, StatusPreconditionFailed}
     /\ WriterStatus(EtagReturned) \in {StatusNotModified, StatusPreconditionFailed}) =>
        /\ Client.status = WriterStatus(EtagReturned)
        /\ Client.body = <<>>
        /\ HeaderGet(Client.sent, hETag) = HeaderGet(EtagReturned.header, hETag)
        /\ \A i \in 1..Len(EtagReturned.header[hVary]) : VarySent(EtagReturned.header[hVary][i])

BothFilters == InOrder(fEtag) /\ InOrder(fGzip) /\ exchange.pc = "done"

EtagSent == HeaderGet(Client.sent, hETag)

\* C16 as stated: with both filters, in either order, the ETag sent has the
\* -gzip suffix if and only if the body sent is gzip-encoded.
C16_GzipSuffixIffGzipBody ==
    (BothFilters /\ EtagSent # <<>>) =>
        (ContainsStr(EtagSent, <<tDash, tGzip>>) <=> IsGzip(Client.body))

\* C16 amended: the same, for the responses sent with a body.
C16_GzipSuffixIffGzipBodySent ==
    (BothFilters /\ EtagSent # <<>> /\ Client.body # <<>>) =>
        (ContainsStr(EtagSent, <<tDash, tGzip>>) <=> IsGzip(Client.body))

\* a compressed response with its tag, in each order of the two filters
C16_Witness ==
    /\ PipeDone(<<fGzip, fEtag>>)
    /\ IsGzip(Client.body)
    /\ EtagSent = EtagGzip(TagLong)

C16_WitnessEtagOutside ==
    /\ PipeDone(<<fEtag, fGzip>>)
    /\ IsGzip(Client.body)
    /\ EtagSent = Quoted(Sha1Hex(Gzip(LongBody)) \o <<tDash, tGzip>>)

\* C17: a gzip filter given CompressionLevel 0 compresses no response: next
\* gets the filter's own Context, and no Content-Encoding: gzip is added.
C17_LevelZeroDisables ==
    (/\ exchange.pc = "done"
     /\ InOrder(fGzip)
     /\ GzipGiven.level = 0) =>
        /\ ~IsGzip(Client.body)
        /\ ~Contains(HeaderGet(Client.sent, hContentEncoding), tGzip)

-----------------------------------------------------------------------------
(* The claims about Service.Adapter and Context.Clone *)

\* C18: after a panic of a filter or of the handler, at any point of the
\* request, the recovery hook has run and the client has status 500 and the
\* hook's text as the only body: nothing the encoder wrote.
C18_PanicGivesInternalServerError ==
    (adapterReq.pc = "done" /\ adapterReq.panicked) =>
        /\ adapterReq.recovered
        /\ adapterReq.w.status = StatusInternalServerError
        /\ adapterReq.w.body = ErrorText

\* C19: what the handler reads in ctx.Context is what the context of the
\* incoming request holds: its value and its cancellation.
C19_RequestContextReachesHandler ==
    adapterReq.seen # <<>> =>
        /\ adapterReq.seen[1].value = adapterReq.request.values[kContextKey]
        /\ adapterReq.seen[1].cancelled = adapterReq.request.cancelled

\* C20: when next has returned to a filter that cloned its Context, what
\* the clone holds is readable through the original: the extras stored
\* with Set, the path values the router captured, the encoder.
C20_CloneSharesWithOriginal ==
    (adapterReq.pc = "up" /\ Len(adapterReq.levels) > 1) =>
        LET n == Len(adapterReq.levels)
            clone == adapterReq.levels[n]
            original == adapterReq.levels[n - 1]
        IN  /\ \A k \in ContextKeys : ContextGet(original, k) = ContextGet(clone, k)
            /\ PathValuesOf(original, adapterReq.maps) = PathValuesOf(clone, adapterReq.maps)
            /\ original.Encode = clone.Encode

-----------------------------------------------------------------------------
(* The claims about the token bucket *)

RECURSIVE Granted(_)
\* the tokens the finished calls of Consume were given
Granted(l) ==
    IF l = <<>> THEN 0
    ELSE Granted(Tail(l)) + (IF Head(l).op = "Consume" /\ Head(l).ok THEN Ration ELSE 0)

\* three calls of Consume, one after the other, at one instant
ThreeBackToBack ==
    /\ memBucket.Size = 2
    /\ memBucket.Rate = 1
    /\ Len(memBucket.log) = 3
    /\ \A i \in 1..3 :
        /\ memBucket.log[i].op = "Consume"
        /\ memBucket.log[i].alone
        /\ memBucket.log[i].at = memBucket.log[1].at

\* C21: with capacity 2 and rate 1 per minute, of three back-to-back
\* consumes of one token the first two are accepted with 1 and 0 remaining,
\* the third is rejected with 429 and Retry-After above 0.
C21_ThirdConsumeRejected ==
    ThreeBackToBack =>
        /\ memBucket.log[1].ok /\ memBucket.log[1].response.remaining = 1
        /\ memBucket.log[2].ok /\ memBucket.log[2].response.remaining = 0
        /\ ~memBucket.log[3].ok
        /\ memBucket.log[3].response.status = StatusTooManyRequests
        /\ ~memBucket.log[3].response.next
        /\ memBucket.log[3].response.retryAfter > 0

C21_Witness ==
    /\ ThreeBackToBack
    /\ memBucket.log[3].response.status = StatusTooManyRequests

\* C22: whatever the interleaving of the calls, no tokenBucket holds a
\* negative count, and the calls of Consume on a bucket that was not
\* refilled are given no more tokens than its capacity.
C22_BucketIsGoroutineSafe ==
    /\ \A i \in 1..Len(memBucket.heap) : memBucket.heap[i].Tokens >= 0
    /\ (memBucket.now = 0 /\ \A i \in 1..Len(memBucket.log) : memBucket.log[i].op = "Consume")
           => Granted(memBucket.log) <= memBucket.Size

-----------------------------------------------------------------------------
(* The claims about the Throttle filter *)

\* C23: a service with a Throttle filter that has served a request has one
\* producer and one limiter channel, however many requests it served and
\* whichever way they came in.
C23_OneProducerPerFilter ==
    throttle.served # <<>> => Len(throttle.limiters) = 1

\* C24: of the requests that arrive with no tick between them, at most
\* Burst are given to next; with Burst = 0, after a request was given to
\* next, a request that arrives before the next tick gets 429.
C24_BurstBoundsAdmissions ==
    /\ throttle.Burst > 0 => throttle.sinceTick <= throttle.Burst
    /\ throttle.Burst = 0 => throttle.sinceTick <= 1

-----------------------------------------------------------------------------
(* The claims about the CORS filter *)

\* the request last served by a CORS filter, its filter and its answer
LastCORS == cors.served[1]

CORSFilterOf(s) == cors.instances[s.instance]

OwnOrigin(s) ==
    \E k \in 1..Len(CORSFilterOf(s).own) :
        MatchString(CORSFilterOf(s).own[k], OriginString(s.req.origin))

OthersOrigin(s) ==
    \E j \in 1..Len(cors.instances) :
        /\ j # s.instance
        /\ \E k \in 1..Len(cors.instances[j].own) :
               MatchString(cors.instances[j].own[k], OriginString(s.req.origin))

\* a cross-origin request that is not a preflight, with a well-formed origin
PlainCrossOrigin(s) ==
    /\ s.req.origin \in {oAllowed, oUnique, oOther}
    /\ s.req.host # s.req.origin.host
    /\ ~(s.req.method = "OPTIONS" /\ s.req.rmethod # "")

\* C25: a strict CORS filter that does not allow any origin answers 403 to
\* an origin that matches only a pattern of another filter, and answers an
\* origin of its own list with 200 and Access-Control-Allow-Origin set to it.
C25_OriginsPerInstance ==
    cors.served # <<>> =>
        LET s == LastCORS
            f == CORSFilterOf(s)
        IN  (f.Strict /\ ~f.AllowAnyOrigin /\ PlainCrossOrigin(s)) =>
                /\ (~OwnOrigin(s) /\ OthersOrigin(s)) =>
                       (s.answer.status = StatusForbidden /\ ~s.answer.next)
                /\ OwnOrigin(s) =>
                       /\ s.answer.status = StatusOK
                       /\ s.answer.headers.acao = OriginString(s.req.origin)

\* a preflight request that passed the origin checks and asks for a method
\* that is allowed
AllowedPreflight(s) ==
    /\ s.req.method = "OPTIONS"
    /\ s.req.rmethod \in simpleMethods \cup CORSFilterOf(s).AllowMethods
    /\ s.answer.status \in {StatusForbidden, StatusNoContent}
    /\ s.req.origin # NoOrigin
    /\ CORSFilterOf(s).AllowAnyOrigin \/ isOriginAllowed(cors.allowOriginRegexp, s.req.origin)

\* C26: a preflight request for an allowed method is answered 403 exactly
\* when a header it asks for is not in the allowed list; otherwise it is
\* answered 204 with the CORS headers.
C26_PreflightHeaders ==
    (cors.served # <<>> /\ AllowedPreflight(LastCORS)) =>
        LET s == LastCORS
            f == CORSFilterOf(s)
        IN  /\ s.answer.status = StatusForbidden <=> s.req.rheaders \ f.AllowHeaders # {}
            /\ s.req.rheaders \subseteq f.AllowHeaders =>
                   (s.answer.status = StatusNoContent /\ s.answer.headers.preflight)

-----------------------------------------------------------------------------
(* The claims about the security filter *)

\* C27: a successful response through a security filter made with no options
\* has X-Content-Type-Options: nosniff and neither Cache-Control nor Pragma;
\* Cache-Control and Pragma are sent only by a filter that was given a cache
\* policy and did not disable it, and Cache-Control is then that policy.
C27_CacheHeadersOnlyWhenConfigured ==
    (security.served # <<>> /\ security.served[1].answer.next) =>
        LET h == security.served[1].answer.header
            f == security.given
        IN  /\ f = DefaultSecurityFilter =>
                   /\ h["Cache-Control"] = ""
                   /\ h["Pragma"] = ""
                   /\ h["X-Content-Type-Options"] = "nosniff"
            /\ (h["Cache-Control"] # "" \/ h["Pragma"] # "") =>
                   /\ f.CacheOptions # ""
                   /\ ~f.CacheDisable
                   /\ h["Cache-Control"] = f.CacheOptions
-----------------------------------------------------------------------------
(* The claims about the method-override filter *)

\* the override a request asks for: the query variable, else the header
Asked(req) == IF req.query # "" THEN req.query ELSE req.header

\* C28: when the override asked for differs from the request method, an
\* override that is not in Methods gets 400 and one whose carrier is not the
\* request method gets 412, next not being called; otherwise the method
\* becomes the override, the header is removed, override.method is
\* published and next is called.
C28_OverrideOutcomes ==
    \A k \in 1..Len(override.calls) :
        LET c == override.calls[k]
            o == Asked(c.before)
        IN  (o # "" /\ o # c.before.Method) =>
                IF o \notin DOMAIN override.Methods
                THEN c.status = StatusBadRequest /\ ~c.next
                ELSE IF override.Methods[o] # c.before.Method
                THEN c.status = StatusPreconditionFailed /\ ~c.next
                ELSE /\ c.next
                     /\ c.after.Method = o
                     /\ c.after.header = ""
                     /\ c.published = o

C28_Witness ==
    \E k \in 1..Len(override.calls) :
        /\ override.calls[k].status = StatusPreconditionFailed
        /\ Asked(override.calls[k].before) \in DOMAIN override.Methods

\* C29: when the filter is invoked again on a request whose method it has
\* changed, the method is still the override and the request is passed on.
C29_SecondInvocationKeepsOverride ==
    (Len(override.calls) >= 2 /\ override.calls[1].published # "") =>
        /\ override.calls[2].next
        /\ override.calls[2].status = StatusOK
        /\ override.calls[2].after.Method = override.calls[1].published
        /\ override.req.Method = override.calls[1].published

C29_Witness ==
    /\ Len(override.calls) >= 2
    /\ override.calls[1].published = "DELETE"
    /\ override.calls[1].before.query = "DELETE"
    /\ override.calls[1].before.Method = "POST"
-----------------------------------------------------------------------------
(* The claims about Service.Content *)

LastContent == content.served[1]

PayloadMethod(s) == s.req.Method \in {"POST", "PUT", "PATCH"}

\* the Accept header the negotiation reads: with */* the extension of the path
AcceptRead(req) ==
    IF req.accept = AnyMedia /\ req.ext # "" THEN VendorOf(req.ext) ELSE req.accept

\* the Accept negotiation refuses the request: a vendor media type that
\* does not parse, or whose subtype has no encoder
AcceptRefused(s) ==
    LET a == AcceptRead(s.req)
        p == ParseMediaType(a)
    IN  /\ HasVendorPrefix(a)
        /\ \/ p.err
           \/ /\ VendorSubtypes[p.ct] # ""
              /\ TypeByExtension(VendorSubtypes[p.ct]) \notin content.encoders

\* next ran only for a Content-Type that parses and names a registered
\* encoder, whose decoder is bound
BoundDecoder(s) ==
    s.answer.next =>
        /\ ~ParseMediaType(s.req.contentType).err
        /\ ParseMediaType(s.req.contentType).ct \in content.encoders
        /\ s.answer.Decode = ParseMediaType(s.req.contentType).ct

PayloadStatus(s) ==
    /\ ParseMediaType(s.req.contentType).err =>
           (s.answer.status = StatusBadRequest /\ ~s.answer.next)
    /\ (~ParseMediaType(s.req.contentType).err
            /\ ParseMediaType(s.req.contentType).ct \notin content.encoders) =>
           (s.answer.status = StatusUnsupportedMediaType /\ ~s.answer.next)

\* C30 as stated: for a POST, PUT or PATCH request next runs only if the
\* Content-Type parses and names a registered encoder, whose decoder is
\* bound; a Content-Type that does not parse gets 400 and one with no
\* registered encoder gets 415, next not being called.
C30_PayloadNeedsDecoder ==
    (content.served # <<>> /\ PayloadMethod(LastContent)) =>
        (BoundDecoder(LastContent) /\ PayloadStatus(LastContent))

\* C30 amended: the same, the statuses 400 and 415 being those of the
\* requests that the Accept negotiation did not refuse; a request it
\* refused gets its 400 or 406 and next is not called.
C30_PayloadNeedsDecoderAfterAccept ==
    (content.served # <<>> /\ PayloadMethod(LastContent)) =>
        /\ BoundDecoder(LastContent)
        /\ ~AcceptRefused(LastContent) => PayloadStatus(LastContent)
        /\ AcceptRefused(LastContent) =>
               /\ ~LastContent.answer.next
               /\ LastContent.answer.status \in {StatusBadRequest, StatusNotAcceptable}

C30_Witness ==
    /\ content.served # <<>>
    /\ LastContent.req.Method = "PUT"
    /\ ~AcceptRefused(LastContent)
    /\ LastContent.req.contentType = Media("text/plain", "none")
    /\ LastContent.answer.status = StatusUnsupportedMediaType

-----------------------------------------------------------------------------
(* The claims about NewRequestID *)

\* C31: NewRequestID returns the id it was given exactly when the id has 20
\* to 200 characters, each of them a letter, a digit or one of . _ ~ % + -;
\* otherwise it returns a generated UUID.
C31_RequestIDAcceptedIffValid ==
    requestId.calls > 0 =>
        LET id == requestId.given
            valid == /\ Len(id) >= 20
                     /\ Len(id) <= 200
                     /\ \A i \in 1..Len(id) : id[i] \in Letter \cup Digit \cup RequestIDMarks
        IN  /\ requestId.returned = id <=> valid
            /\ ~valid => requestId.returned = <<"uuid", requestId.calls>>

-----------------------------------------------------------------------------
(* The claims about a Respond whose encoding fails *)

\* C32: when Encode fails, Respond returns the error to the handler: the
\* request is not aborted by a panic and the client is sent nothing about
\* the error.
C32_RespondReturnsEncodeError ==
    "respondFailed" \in adapterReq.did =>
        /\ ~adapterReq.panicked
        /\ adapterReq.w.status # StatusInternalServerError
        /\ adapterReq.w.body = <<>>

-----------------------------------------------------------------------------
(* The claims about the pools *)

\* the request of g has left the closure of Adapter
PoolDone(g) == pool.procs[g].pc = "done"

\* the ways out of a buffering filter that the specification names
NamedExits == {"flush", "notModified", "preconditionFailed", "compressed", "compressorError"}

\* C33: a ResponseBuffer that the etag or the gzip filter took from the pool
\* has been put back exactly once when the request is over, whichever of the
\* named ways out the filter took.
C33_BufferReturnedOnce ==
    \A g \in PoolGoroutines :
        (PoolDone(g) /\ pool.procs[g].rb # 0 /\ pool.procs[g].path \in NamedExits)
            => pool.procs[g].rbPuts = 1

\* C34: when a request is over, the Context of the adapter and every clone
\* made for it have each been put back exactly once, after a panic too.
C34_ContextReturnedOnce ==
    \A g \in PoolGoroutines :
        PoolDone(g) =>
            /\ pool.procs[g].ctxPuts = 1
            /\ pool.procs[g].clone # 0 => pool.procs[g].clonePuts = 1

\* the request of g is in flight and uses the buffer it took
HoldsBuffer(g) ==
    /\ pool.procs[g].pc \in {"handler", "after", "deferred"}
    /\ pool.procs[g].rb # 0

\* C35: no two requests in flight hold the same pooled ResponseBuffer or
\* Context, and a request never flushes or releases a buffer that it has
\* already released.
C35_NoSharedPooledObject ==
    /\ \A g, h \in PoolGoroutines :
          (g # h /\ HoldsBuffer(g) /\ HoldsBuffer(h))
              => pool.procs[g].rb # pool.procs[h].rb
    /\ \A g, h \in PoolGoroutines :
          (g # h /\ pool.procs[g].pc \notin {"idle", "done"}
                 /\ pool.procs[h].pc \notin {"idle", "done"})
              => {pool.procs[g].ctx, pool.procs[g].clone}
                    \cap ({pool.procs[h].ctx, pool.procs[h].clone} \ {0}) = {}
    /\ \A g \in PoolGoroutines : ~pool.procs[g].late

\* C36: a Context that lies in the pool has every field zero.
C36_FreedContextIsZero ==
    \A p \in 1..Len(pool.contexts) :
        pool.ctxPool[p] > 0 => pool.contexts[p] = ZeroContext

-----------------------------------------------------------------------------
(* The claim about Context.Status after the chain *)

\* C37: when the chain of handlers has returned, ctx.Status() of the
\* Context of the adapter is the status that was sent to the client, also
\* when a buffering filter sent it.
C37_StatusIsStatusSent ==
    exchange.pc = "done" =>
        ContextStatus(exchange.levels[1].cx) = Client.status

-----------------------------------------------------------------------------
(* The claims about the refill of the token bucket *)

\* the tokens in the bucket after the call of a log entry
TokensAfter(e) == IF e.op = "Reset" THEN memBucket.Size ELSE e.tokens

\* the calls i to j of the log ran one after the other, and those after i
\* are Consume calls that took nothing
OnlyRefills(i, j) ==
    /\ \A k \in i..j : memBucket.log[k].alone
    /\ \A k \in (i + 1)..j : memBucket.log[k].op = "Consume" /\ ~memBucket.log[k].ok

\* the calls so far form a sequence: none ran while another was running
SerialCalls ==
    /\ \A k \in 1..Len(memBucket.log) : memBucket.log[k].alone
    /\ \A g \in Goroutines : memBucket.procs[g].alone

C39_AcceptedAfterWait ==
    \A i \in 1..(Len(memBucket.log) - 1) :
        LET e == memBucket.log[i]
            f == memBucket.log[i + 1]
        IN  (/\ e.op = "Consume" /\ f.op = "Consume"
             /\ e.alone /\ f.alone
             /\ ~e.ok
             /\ f.at - e.at >= e.when)
                => f.ok

-----------------------------------------------------------------------------
(* The claim about the resource handler under filters that refuse *)

\* the statuses with which the filters of the chain refuse a request
RefusalStatuses ==
    {StatusUnauthorized, StatusBadRequest, StatusPreconditionFailed,
     StatusTooManyRequests, StatusForbidden}

\* a filter of the chain has answered the request with a refusal
Refused ==
    \E k \in 1..Len(shortReq.trace) :
        /\ shortReq.trace[k].kind \in FilterKinds
        /\ shortReq.trace[k].status \in RefusalStatuses

\* C40: the resource handler is called at most once for a request, and not
\* at all when a filter above it has refused the request with 401, 400,
\* 412, 429 or 403.
C40_HandlerAtMostOnce ==
    /\ shortReq.calls <= 1
    /\ Refused => shortReq.calls = 0

\* a request that passed one filter and was refused by the next is over
C40_Witness ==
    /\ shortReq.pc = "done"
    /\ Len(shortReq.trace) >= 2
    /\ shortReq.trace[1].next
    /\ Refused
    /\ shortReq.calls = 0

====
